---------------------------- MODULE Spec2Model ----------------------------
(***************************************************************************)
(* Acquisition and lifecycle engine of xr-native-sensor-access.            *)
(*                                                                         *)
(* Part I   CameraStream (camera_stream.h, camera_manager.cpp 231-567):    *)
(*          one stream object, its control thread inside startPreview /    *)
(*          stopPreview, and the camera-service callback threads.          *)
(* Part II  ImuManager (imu_manager.h, imu_manager.cpp): caller threads    *)
(*          inside start / stop / switchSensors and the worker threads.    *)
(* Part III ImuManager statistics, metadata and latest samples.            *)
(* Part IV  CameraManager::classifyCamera.                                 *)
(* Part V   The threads of one CameraStream around statsMutex_.            *)
(* Part VI  The JNI bridge's registry of streams under g_cameraMutex.      *)
(*                                                                         *)
(* A handle field is 0 (nullptr) or 1 (points to a native object).  The    *)
(* platform side counts, per kind of object, the objects that are alive,   *)
(* and per window the references the stream holds; a release of an object  *)
(* that is not alive is recorded as a double free.                         *)
(***************************************************************************)
EXTENDS Integers, Sequences, FiniteSets, TLC

\* ----------------------------------------------------------------- bounds
MaxLive    == 1     \* native objects of one kind alive at a time
MaxFrames  == 1     \* capture-start notifications counted per start
MaxTicks   == 1     \* clock advances

\* -------------------------------------------------------- program constants
kNsPerSecond == 1000000000
kNsToMs      == 1000000

TickNs    == kNsPerSecond
Windows   == {1, 2}              \* the ANativeWindow objects a caller passes
CameraIds == {"cam0", "cam1"}
NoId      == ""
Callbacks == {0, 1}              \* 0: nullptr, 1: a registered std::function

VARIABLES
    \* ---- CameraStream members
    streaming,               \* std::atomic<bool> streaming_
    currentCameraId,         \* std::string currentCameraId_
    handles,                 \* the six NDK handle fields
    surface,                 \* ANativeWindow* surface_, 0 = nullptr
    statsCallback,           \* CameraStatsCallback statsCallback_
    frameCount,              \* std::atomic<int64_t> frameCount_
    droppedFrames,           \* std::atomic<int64_t> droppedFrames_
    prevFrameTimestampNs,
    lastFrameRateHz,         \* <<num, den>> of the rate, <<0, 1>> for 0.0f
    lastLatencyMs,
    lastCallbackTimeNs,
    managerValid,            \* CameraManager::isValid()
    \* ---- control thread
    pc,                      \* position of the thread holding mutex_
    destroyed,               \* ~CameraStream() has run
    \* ---- platform
    liveObjs,                \* per kind: native objects alive
    doubleFree,              \* an object was released that was not alive
    windowRefs,              \* per window: references held by the stream
    repeating,               \* the current session has a repeating request
    now,                     \* CLOCK_BOOTTIME as last read
    callbackInvokedAt,       \* clock value at the latest invocation of the
                             \* stats callback, -1 before the first
    sessionInvokedAt,        \* the same, since the latest statistics reset
                             \* of startPreview
    \* ---- history
    last,                    \* the latest step taken
    lastResult,              \* what the latest startPreview returned
    callLive,                \* kinds of object the latest call created and
                             \* has not released
    callWindow,              \* the window reference the latest call took and
                             \* has not released, 0 if none
    notified,                \* device notification since the latest call began:
                             \* "no", "live" (it found the stream streaming)
                             \* or "other"
    stopsInRow               \* stopPreview calls since any other step, up to 2

streamVars == <<streaming, currentCameraId, handles, surface, statsCallback>>
statVars   == <<frameCount, droppedFrames, prevFrameTimestampNs,
                lastFrameRateHz, lastLatencyMs, lastCallbackTimeNs, now,
                callbackInvokedAt, sessionInvokedAt>>
envVars    == <<destroyed, managerValid>>
nativeVars == <<liveObjs, doubleFree, windowRefs, repeating>>
ghostVars  == <<callLive, callWindow>>
histVars   == <<last, lastResult, notified, stopsInRow>>
camVars    == <<streamVars, statVars, pc, envVars, nativeVars, ghostVars,
                histVars>>

VARIABLES
    \* ---- ImuManager members
    running,                 \* std::atomic<bool> running_
    sensorThread,            \* std::thread sensorThread_: 0 not joinable, else
                             \* the worker it stands for
    callback,                \* ImuCallback callback_, 0 = empty
    targetAccelHandle,
    targetGyroHandle,
    needsSensorSwitch,
    sensorManager,           \* sensorManager_ # nullptr
    looper,                  \* ALooper* looper_: 0 nullptr, else the worker
                             \* whose thread owns the looper
    eventQueue,              \* eventQueue_ # nullptr
    currentAccel,            \* const ASensor*: 0 nullptr, else index
    currentGyro,
    statsFresh,              \* counters are zero since the latest reset
    \* ---- caller threads
    cpc,                     \* position of each caller
    via,                     \* "direct" or "switch": who called start/stop
    cbArg,                   \* callback argument / local copy cb
    gyroArg,                 \* gyroHandle argument not yet stored
    lp,                      \* looper_ as read by stop()
    \* ---- worker threads
    wpc,                     \* position of each worker, "none" = no thread
    crashed,                 \* "no", or why the process was terminated
    \* ---- history
    lastCall,                \* latest call begun: its name, "overlap" if it
                             \* ran while another call was in progress
    ilast,                   \* "stopReturn", "callback" or "other"
    sinceStop                \* a stop() returned and no start() began since

VARIABLES
    \* ---- ImuManager statistics, guarded by statsMutex_
    statsWindowStart,        \* int64_t statsWindowStart_
    accelCount,
    gyroCount,
    accelLatencyTotal,
    gyroLatencyTotal,
    \* ---- sensor metadata, four std::atomic<int32_t>
    accelMinDelay,
    accelFifo,
    gyroMinDelay,
    gyroFifo,
    \* ---- cached samples, guarded by dataMutex_
    latestAccel,
    latestGyro,
    \* ---- the platform
    inow,                    \* CLOCK_BOOTTIME as last read, in ns
    defaultAccel,            \* ASensorManager_getDefaultSensor: 0 nullptr,
    defaultGyro,             \* else index in SensorList
    queue,                   \* events pending in the ASensorEventQueue
    produced,                \* events the sensors have produced so far
    discarded,               \* events lost with a destroyed event queue
    \* ---- worker locals
    drainNow,                \* `now` of the drainEvents() in progress
    \* ---- history
    delivered,               \* samples handed to callback_, in order
    switchNo,                \* switchSensors calls begun so far
    accelFrom,               \* the call whose selector the worker resolved
    gyroFrom,                \* its accelerometer / gyroscope from, 0 = none
    swRunning,               \* running_ and callback_ as the latest
    swCallback,              \* switchSensors call found them
    swArgs,                  \* the selectors passed to that call
    starts,                  \* start() calls that went on to reset the window
    taken,                   \* events drainEvents() took and matched to a
                             \* channel, in order
    cleanSince               \* the clock value the latest getStats() read,
                             \* -1 once an event was counted or start()
                             \* reset the window after it

imuStatVars  == <<statsWindowStart, accelCount, gyroCount, accelLatencyTotal,
                  gyroLatencyTotal>>
metaVars     == <<accelMinDelay, accelFifo, gyroMinDelay, gyroFifo>>
latestVars   == <<latestAccel, latestGyro>>
platformVars == <<inow, defaultAccel, defaultGyro, queue, produced, discarded>>
dataHist     == <<delivered, switchNo, accelFrom, gyroFrom, swRunning,
                  swCallback, swArgs, starts, taken, cleanSince>>
dataVars     == <<imuStatVars, metaVars, latestVars, platformVars, drainNow,
                  dataHist>>

memberVars == <<running, sensorThread, callback, targetAccelHandle,
                targetGyroHandle, needsSensorSwitch, sensorManager, looper,
                eventQueue, currentAccel, currentGyro, statsFresh>>
callerVars == <<cpc, via, cbArg, gyroArg, lp>>
imuHist    == <<lastCall, ilast, sinceStop>>
imuVars    == <<memberVars, callerVars, wpc, crashed, imuHist, dataVars>>

VARIABLES
    \* ---- CameraManager::classifyCamera
    info,                    \* the CameraInfo descriptor passed in
    clusterType              \* info.clusterType, "none" before the call

VARIABLES
    \* ---- threads around CameraStream::statsMutex_
    statsMutex,              \* holder of statsMutex_, 0 when it is free
    npc,                     \* per camera-service thread: position in
                             \* onCaptureStarted / updateStats
    nnow,                    \* per camera-service thread: its local "now"
    nts,                     \* per camera-service thread: timestampNs
    gpc                      \* position of the thread calling getStats()

VARIABLES
    \* ---- JNI bridge: the registry of streams
    g_cameraStreams,         \* camera id -> stream object, 0 when absent
    g_cameraMutex,           \* holder of g_cameraMutex, 0 when it is free
    obj,                     \* per stream object: its life and what its
                             \* CameraStream holds
    jt,                      \* per JNI thread: the call it is in
    invokedOnDestroyed       \* startPreview was called on a destroyed stream

VARIABLES
    \* ---- RingBuffer<T, Capacity>
    head_,                   \* std::atomic<size_t> head_
    tail_,                   \* std::atomic<size_t> tail_
    buffer_,                 \* std::array<T, Capacity> buffer_
    \* ---- the producer
    ppc,                     \* its position
    currentHead,             \* const size_t currentHead
    item,                    \* the value it is storing
    loadedTail,              \* tail_ as pushOverwrite loaded it at line 41
    \* ---- the consumer
    qpc,                    \* its position
    currentTail,             \* const size_t currentTail
    popItem,                 \* the value pop() copied out
    \* ---- history
    pushNo,                  \* values handed to the producer so far
    accepted,                \* values stored by calls that returned, in order
    popped,                  \* values pop() returned, in order
    atCall,                  \* the stored elements when the latest producer
                             \* call began
    rlast                    \* the latest step of the buffer and its outcome

VARIABLES
    \* ---- the three locks of the camera domain
    gHolder,                 \* holder of g_cameraMutex, 0 when it is free
    mHolder,                 \* per id: holder of the stream's mutex_
    sHolder,                 \* per id: holder of the stream's statsMutex_
    present,                 \* per id: g_cameraStreams has a stream for it
    isStreaming,             \* per id: streaming_ of that stream
    lk,                      \* per JNI thread: the call it is in
    ptrStale,                \* per JNI thread: the stream its raw pointer
                             \* names was destroyed
    nt,                      \* per id: position of the camera-service thread
                             \* delivering onCaptureStarted
    outOfOrder               \* a lock was taken by a thread holding a lock
                             \* that comes later in the order

clsVars  == <<info, clusterType>>
lockVars == <<statsMutex, npc, nnow, nts, gpc>>
regVars  == <<g_cameraStreams, g_cameraMutex, obj, jt, invokedOnDestroyed>>
ringVars == <<head_, tail_, buffer_, ppc, currentHead, item, loadedTail, qpc,
              currentTail, popItem, pushNo, accepted, popped, atCall, rlast>>
ordVars  == <<gHolder, mHolder, sHolder, present, isStreaming, lk, ptrStale,
              nt, outOfOrder>>
jniVars  == <<clsVars, lockVars, regVars, ringVars, ordVars>>
vars       == <<camVars, imuVars, jniVars>>

NullHandles ==
    [cameraDevice |-> 0, captureSession |-> 0, outputContainer |-> 0,
     sessionOutput |-> 0, outputTarget |-> 0, captureRequest |-> 0]

HandleNames == DOMAIN NullHandles

StepNames ==
    {"openCamera", "createTarget", "createRequest", "addTarget",
     "createContainer", "createOutput", "containerAdd", "createSession",
     "setRepeating"}

ZeroRate == <<0, 1>>

CamInit ==
    /\ streaming = FALSE
    /\ currentCameraId = NoId
    /\ handles = NullHandles
    /\ surface = 0
    /\ statsCallback = 0
    /\ frameCount = 0
    /\ droppedFrames = 0
    /\ prevFrameTimestampNs = 0
    /\ lastFrameRateHz = ZeroRate
    /\ lastLatencyMs = 0
    /\ lastCallbackTimeNs = 0
    /\ managerValid \in BOOLEAN
    /\ pc = "idle"
    /\ destroyed = FALSE
    /\ liveObjs = [f \in HandleNames |-> 0]
    /\ doubleFree = FALSE
    /\ windowRefs = [w \in Windows |-> 0]
    /\ repeating = FALSE
    /\ now = 0
    /\ callbackInvokedAt = -1
    /\ sessionInvokedAt = -1
    /\ last = "init"
    /\ lastResult = "none"
    /\ callLive = {}
    /\ callWindow = 0
    /\ notified = "no"
    /\ stopsInRow = 0

\* ---------------------------------------------------- CameraStream::cleanup
\* What cleanup() leaves behind, as values, so that startPreview can go on
\* from the state it produces.  Every release is guarded by its handle.
LiveAfterCleanup ==
    [f \in HandleNames |->
        IF handles[f] # 0 /\ liveObjs[f] > 0 THEN liveObjs[f] - 1 ELSE liveObjs[f]]

DoubleFreeAfterCleanup ==
    doubleFree \/ \E f \in HandleNames : handles[f] # 0 /\ liveObjs[f] = 0

RefsAfterCleanup ==
    IF surface # 0 THEN [windowRefs EXCEPT ![surface] = @ - 1] ELSE windowRefs

\* What the platform has released of the latest call's acquisitions.
CallLiveAfter == {f \in callLive : liveObjs'[f] >= liveObjs[f]}

CallWindowAfter ==
    IF callWindow # 0 /\ windowRefs'[callWindow] < windowRefs[callWindow]
    THEN 0 ELSE callWindow

Cleanup ==
    /\ streaming' = FALSE
    /\ handles' = NullHandles
    /\ surface' = 0
    /\ currentCameraId' = NoId
    /\ statsCallback' = 0
    /\ liveObjs' = LiveAfterCleanup
    /\ doubleFree' = DoubleFreeAfterCleanup
    /\ windowRefs' = RefsAfterCleanup
    /\ repeating' = FALSE
    /\ callLive' = CallLiveAfter
    /\ callWindow' = CallWindowAfter

\* The order in which startPreview acquires (lines 297-412) and in which
\* cleanup() releases (lines 444-477).  "surface" is the window reference,
\* "repeating" the repeating request of the session.
AcquisitionOrder ==
    <<"surface", "cameraDevice", "outputTarget", "captureRequest",
      "outputContainer", "sessionOutput", "captureSession", "repeating">>

CleanupOrder ==
    <<"repeating", "captureSession", "cameraDevice", "captureRequest",
      "outputTarget", "sessionOutput", "outputContainer", "surface">>

Held(kind) ==
    CASE kind = "surface"   -> surface # 0
      [] kind = "repeating" -> handles.captureSession # 0 /\ repeating
      [] OTHER              -> handles[kind] # 0

\* what the stream holds, in the order it acquired it
AcquiredSequence == SelectSeq(AcquisitionOrder, Held)

\* what a cleanup() that starts now releases, in the order it releases it
ReleaseSequence == SelectSeq(CleanupOrder, Held)

\* ----------------------------------------------- CameraStream::startPreview
\* a startPreview without the early return
AlreadyStreamingSameNever(id) == FALSE

\* line 274: the early return looks at the camera id only
AlreadyStreamingSame(id) == streaming /\ currentCameraId = id

ReturnFromStart(result) ==
    /\ pc' = "idle"
    /\ lastResult' = result

\* The platform can still hand out one object of every kind and one more
\* reference to the window.
CanAcquire(live, refs, surf) ==
    /\ \A f \in HandleNames : live[f] < MaxLive
    /\ refs[surf] < MaxLive

\* lines 271-315: entry, restart of a running stream, argument checks, window
\* acquisition, statistics reset.  mutex_ is taken here and kept until return.
StartPreview(id, surf, cb) ==
    /\ UNCHANGED <<imuVars, jniVars>>
    /\ pc = "idle"
    /\ ~destroyed
    /\ last' = "startPreview"
    /\ notified' = "no"
    /\ stopsInRow' = 0
    /\ UNCHANGED envVars
    /\ IF AlreadyStreamingSame(id)
       THEN /\ ReturnFromStart("true")
            /\ UNCHANGED <<streamVars, statVars, nativeVars, ghostVars>>
       ELSE LET wasStreaming == streaming
                live0 == IF wasStreaming THEN LiveAfterCleanup ELSE liveObjs
                refs0 == IF wasStreaming THEN RefsAfterCleanup ELSE windowRefs
            IN  IF ~managerValid \/ surf = 0
                THEN /\ ReturnFromStart("false")
                     /\ UNCHANGED statVars
                     /\ IF wasStreaming
                        THEN Cleanup
                        ELSE UNCHANGED <<streamVars, nativeVars, ghostVars>>
                ELSE /\ CanAcquire(live0, refs0, surf)
                     /\ pc' = "openCamera"
                     /\ lastResult' = "pending"
                     /\ streaming' = FALSE
                     /\ handles' = IF wasStreaming THEN NullHandles ELSE handles
                     /\ liveObjs' = live0
                     /\ doubleFree' = IF wasStreaming THEN DoubleFreeAfterCleanup
                                      ELSE doubleFree
                     /\ repeating' = IF wasStreaming THEN FALSE ELSE repeating
                     /\ surface' = surf
                     /\ windowRefs' = [refs0 EXCEPT ![surf] = @ + 1]
                     /\ callLive' = {}
                     /\ callWindow' = surf
                     /\ statsCallback' = cb
                     /\ currentCameraId' = id
                     /\ frameCount' = 0
                     /\ droppedFrames' = 0
                     /\ prevFrameTimestampNs' = 0
                     /\ lastFrameRateHz' = ZeroRate
                     /\ lastLatencyMs' = 0
                     /\ lastCallbackTimeNs' = 0
                     /\ sessionInvokedAt' = -1
                     /\ UNCHANGED <<now, callbackInvokedAt>>

\* a failed step that returns false without cleanup()
FailStartNoCleanup ==
    /\ ReturnFromStart("false")
    /\ UNCHANGED <<streamVars, nativeVars, ghostVars>>

\* "cleanup(); return false;" of every failing step
FailStart ==
    /\ Cleanup
    /\ ReturnFromStart("false")

\* A step that creates a native object and stores it in a handle field (a
\* failing call leaves the field as it was).
AcquireStep(step, field, nextPc) ==
    /\ UNCHANGED <<imuVars, jniVars>>
    /\ pc = step
    /\ last' = step
    /\ stopsInRow' = 0
    /\ UNCHANGED <<statVars, envVars, notified>>
    /\ \E ok \in BOOLEAN :
         IF ok
         THEN /\ handles' = [handles EXCEPT ![field] = 1]
              /\ liveObjs' = [liveObjs EXCEPT ![field] = @ + 1]
              /\ repeating' = IF field = "captureSession" THEN FALSE ELSE repeating
              /\ callLive' = callLive \cup {field}
              /\ pc' = nextPc
              /\ UNCHANGED <<streaming, currentCameraId, surface, statsCallback,
                             doubleFree, windowRefs, lastResult, callWindow>>
         ELSE FailStart

\* A step that only connects objects already created.
LinkStep(step, nextPc) ==
    /\ UNCHANGED <<imuVars, jniVars>>
    /\ pc = step
    /\ last' = step
    /\ stopsInRow' = 0
    /\ UNCHANGED <<statVars, envVars, notified>>
    /\ \E ok \in BOOLEAN :
         IF ok
         THEN /\ pc' = nextPc
              /\ UNCHANGED <<streamVars, nativeVars, ghostVars, lastResult>>
         ELSE FailStart

OpenCamera      == AcquireStep("openCamera", "cameraDevice", "createTarget")

CreateTarget    == AcquireStep("createTarget", "outputTarget", "createRequest")

CreateRequest   == AcquireStep("createRequest", "captureRequest", "addTarget")

AddTarget       == LinkStep("addTarget", "createContainer")

CreateContainer == AcquireStep("createContainer", "outputContainer", "createOutput")

CreateOutput    == AcquireStep("createOutput", "sessionOutput", "containerAdd")

ContainerAdd    == LinkStep("containerAdd", "createSession")

CreateSession   == AcquireStep("createSession", "captureSession", "setRepeating")

\* lines 411-423: ACameraCaptureSession_setRepeatingRequest
SetRepeating ==
    /\ UNCHANGED <<imuVars, jniVars>>
    /\ pc = "setRepeating"
    /\ last' = "setRepeating"
    /\ stopsInRow' = 0
    /\ UNCHANGED <<statVars, envVars, notified>>
    /\ \E ok \in BOOLEAN :
         IF ok
         THEN /\ pc' = "markStreaming"
              /\ repeating' = TRUE
              /\ UNCHANGED <<streamVars, liveObjs, doubleFree, windowRefs,
                             ghostVars, lastResult>>
         ELSE FailStart

\* lines 425-427: streaming_.store(true); return true
MarkStreaming ==
    /\ UNCHANGED <<imuVars, jniVars>>
    /\ pc = "markStreaming"
    /\ last' = "markStreaming"
    /\ stopsInRow' = 0
    /\ streaming' = TRUE
    /\ ReturnFromStart("true")
    /\ UNCHANGED <<currentCameraId, handles, surface, statsCallback, statVars,
                   envVars, nativeVars, ghostVars, notified>>

\* ------------------------------------------------ CameraStream::stopPreview
\* a stopPreview without the early return
NotStreamingNever == FALSE

\* line 433
NotStreaming == ~streaming

StopBody ==
    IF NotStreaming
    THEN UNCHANGED <<streamVars, nativeVars, ghostVars>>
    ELSE Cleanup

StopPreview ==
    /\ UNCHANGED <<imuVars, jniVars>>
    /\ pc = "idle"
    /\ ~destroyed
    /\ last' = "stopPreview"
    /\ stopsInRow' = IF stopsInRow < 2 THEN stopsInRow + 1 ELSE 2
    /\ StopBody
    /\ UNCHANGED <<statVars, pc, envVars, lastResult, notified>>

\* ~CameraStream(): stopPreview(), then the object is gone
Destroy ==
    /\ UNCHANGED <<imuVars, jniVars>>
    /\ pc = "idle"
    /\ ~destroyed
    /\ last' = "destroy"
    /\ stopsInRow' = 0
    /\ StopBody
    /\ destroyed' = TRUE
    /\ UNCHANGED <<statVars, pc, managerValid, lastResult, notified>>

\* ------------------------------------------------- camera-service callbacks
\* The device callbacks are registered by ACameraManager_openCamera and can be
\* delivered, on a camera-service thread, for as long as that device is open.
DeviceOpen == handles.cameraDevice # 0 /\ liveObjs.cameraDevice > 0

DeviceNotification(name) ==
    /\ UNCHANGED <<imuVars, jniVars>>
    /\ DeviceOpen
    /\ ~destroyed
    /\ streaming' = FALSE
    /\ notified' = IF streaming \/ notified = "live" THEN "live" ELSE "other"
    /\ last' = name
    /\ stopsInRow' = 0
    /\ UNCHANGED <<currentCameraId, handles, surface, statsCallback, statVars,
                   pc, envVars, nativeVars, ghostVars, lastResult>>

OnDeviceDisconnected == DeviceNotification("onDeviceDisconnected")

OnDeviceError == DeviceNotification("onDeviceError")

\* a rate computed from any later timestamp, the first of a start included
RateDueFromFirst(timestampNs) == timestampNs > prevFrameTimestampNs

\* line 506: there is a previous timestamp and this one is later
RateDue(timestampNs) ==
    prevFrameTimestampNs > 0 /\ timestampNs > prevFrameTimestampNs

Rate(intervalNs) == <<kNsPerSecond, intervalNs>>

ClockValues == {k * TickNs : k \in 0..MaxTicks}

\* getBootTimeNs(): the boot clock never runs backwards
BootTimeNs(t) == t \in ClockValues /\ t >= now

\* CameraStream::updateStats, reached from onCaptureStarted
UpdateStats(timestampNs) ==
    LET rate == IF RateDue(timestampNs)
                THEN Rate(timestampNs - prevFrameTimestampNs)
                ELSE lastFrameRateHz
        lat  == IF timestampNs > 0 /\ now' > timestampNs
                THEN (now' - timestampNs) \div kNsToMs
                ELSE lastLatencyMs
        fire == statsCallback # 0 /\ now' - lastCallbackTimeNs >= kNsPerSecond
    IN  /\ frameCount' = frameCount + 1
        /\ lastFrameRateHz' = rate
        /\ prevFrameTimestampNs' = timestampNs
        /\ lastLatencyMs' = lat
        /\ callbackInvokedAt' = IF fire THEN now' ELSE callbackInvokedAt
        /\ sessionInvokedAt' = IF fire THEN now' ELSE sessionInvokedAt
        /\ lastCallbackTimeNs' = IF fire THEN now' ELSE lastCallbackTimeNs
        /\ UNCHANGED droppedFrames

\* The capture callbacks are registered by setRepeatingRequest and delivered
\* while that session repeats; the frame's hardware timestamp is not later
\* than the time the callback runs.
OnCaptureStarted ==
    /\ UNCHANGED <<imuVars, jniVars>>
    /\ repeating
    /\ ~destroyed
    /\ frameCount < MaxFrames
    /\ \E t \in ClockValues :
         /\ BootTimeNs(t)
         /\ now' = t
         /\ \E ts \in {x \in ClockValues : x <= t} : UpdateStats(ts)
    /\ last' = "onCaptureStarted"
    /\ stopsInRow' = 0
    /\ UNCHANGED <<streamVars, pc, envVars, nativeVars, ghostVars, lastResult,
                   notified>>

CallStartPreview ==
    \E id \in CameraIds, surf \in {0} \cup Windows, cb \in Callbacks :
        StartPreview(id, surf, cb)

CamNext ==
    \/ CallStartPreview
    \/ OpenCamera
    \/ CreateTarget
    \/ CreateRequest
    \/ AddTarget
    \/ CreateContainer
    \/ CreateOutput
    \/ ContainerAdd
    \/ CreateSession
    \/ SetRepeating
    \/ MarkStreaming
    \/ StopPreview
    \/ Destroy
    \/ OnDeviceDisconnected
    \/ OnDeviceError
    \/ OnCaptureStarted




\* ==================================================== Part II: ImuManager
Callers    == {1, 2}             \* threads calling into the ImuManager
Workers    == {1, 2}             \* std::thread objects start() can have made
ImuCallbacks == {1, 2}           \* callables passed to start(); 0 is empty
Selectors  == {-1, 1}            \* sensor handles passed to switchSensors
SensorList == <<"accelerometer", "gyroscope">>   \* ASensorManager_getSensorList
DefaultAccel == 1                \* index in SensorList, 0 stands for nullptr
DefaultGyro  == 2

ImuInit ==
    /\ running = FALSE
    /\ sensorThread = 0
    /\ callback = 0
    /\ targetAccelHandle = -1
    /\ targetGyroHandle = -1
    /\ needsSensorSwitch = FALSE
    /\ sensorManager \in BOOLEAN
    /\ looper = 0
    /\ eventQueue = FALSE
    /\ currentAccel = 0
    /\ currentGyro = 0
    /\ statsFresh = TRUE
    /\ cpc = [t \in Callers |-> "idle"]
    /\ via = [t \in Callers |-> "direct"]
    /\ cbArg = [t \in Callers |-> 0]
    /\ gyroArg = [t \in Callers |-> -1]
    /\ lp = [t \in Callers |-> 0]
    /\ wpc = [w \in Workers |-> "none"]
    /\ crashed = "no"
    /\ lastCall = "none"
    /\ ilast = "other"
    /\ sinceStop = FALSE

Alive == crashed = "no"

OthersIdle(t) == \A u \in Callers \ {t} : cpc[u] = "idle"

\* A call begins: the history only.
Begin(t, name) ==
    lastCall' = IF OthersIdle(t) THEN name ELSE "overlap"

\* A step inside a call: a call that runs beside another one overlaps it.
Inside(t) ==
    lastCall' = IF OthersIdle(t) THEN lastCall ELSE "overlap"

Exited(w) == wpc[w] \in {"none", "done"}

\* ------------------------------------------------------- ImuManager::start
\* a start without the early return
AlreadyRunningNever == FALSE

\* line 237
AlreadyRunning == running

\* lines 237-245: the two early returns, else on to the body
StartCheck(t, cb) ==
    IF AlreadyRunning \/ ~sensorManager
    THEN /\ cpc' = [cpc EXCEPT ![t] = "idle"]
         /\ via' = [via EXCEPT ![t] = "direct"]
         /\ cbArg' = [cbArg EXCEPT ![t] = 0]
    ELSE /\ cpc' = [cpc EXCEPT ![t] = "startStore"]
         /\ cbArg' = [cbArg EXCEPT ![t] = cb]
         /\ UNCHANGED via

Start(t, cb) ==
    /\ Alive
    /\ UNCHANGED <<camVars, dataVars, jniVars>>
    /\ cpc[t] = "idle"
    /\ StartCheck(t, cb)
    /\ Begin(t, "start")
    /\ sinceStop' = FALSE
    /\ ilast' = "other"
    /\ UNCHANGED <<memberVars, gyroArg, lp, wpc, crashed>>

\* lines 247-248
StartStore(t) ==
    /\ Alive
    /\ UNCHANGED <<camVars, dataVars, jniVars>>
    /\ cpc[t] = "startStore"
    /\ callback' = cbArg[t]
    /\ running' = TRUE
    /\ cpc' = [cpc EXCEPT ![t] = "startStats"]
    /\ cbArg' = [cbArg EXCEPT ![t] = 0]
    /\ Inside(t)
    /\ ilast' = "other"
    /\ UNCHANGED <<sensorThread, targetAccelHandle, targetGyroHandle,
                   needsSensorSwitch, sensorManager, looper, eventQueue,
                   currentAccel, currentGyro, statsFresh, via, gyroArg, lp,
                   wpc, crashed, sinceStop>>

\* lines 251-258
StartStats(t) ==
    /\ Alive
    /\ UNCHANGED <<camVars, dataVars, jniVars>>
    /\ cpc[t] = "startStats"
    /\ statsFresh' = TRUE
    /\ cpc' = [cpc EXCEPT ![t] = "startSpawn"]
    /\ Inside(t)
    /\ ilast' = "other"
    /\ UNCHANGED <<running, sensorThread, callback, targetAccelHandle,
                   targetGyroHandle, needsSensorSwitch, sensorManager, looper,
                   eventQueue, currentAccel, currentGyro, via, cbArg, gyroArg,
                   lp, wpc, crashed, sinceStop>>

\* line 260: the new thread runs, then it is move-assigned to sensorThread_;
\* std::thread::operator= calls std::terminate() if the target is joinable.
StartSpawn(t) ==
    /\ Alive
    /\ UNCHANGED <<camVars, dataVars, jniVars>>
    /\ cpc[t] = "startSpawn"
    /\ \E w \in Workers :
         /\ wpc[w] = "none"
         /\ \A v \in Workers : wpc[v] = "none" => w <= v
         /\ wpc' = [wpc EXCEPT ![w] = "prepare"]
         /\ IF sensorThread # 0
            THEN /\ crashed' = "terminate"
                 /\ UNCHANGED <<sensorThread, cpc, via>>
            ELSE /\ sensorThread' = w
                 /\ cpc' = [cpc EXCEPT ![t] = "idle"]
                 /\ via' = [via EXCEPT ![t] = "direct"]
                 /\ UNCHANGED crashed
    /\ Inside(t)
    /\ ilast' = "other"
    /\ UNCHANGED <<running, callback, targetAccelHandle, targetGyroHandle,
                   needsSensorSwitch, sensorManager, looper, eventQueue,
                   currentAccel, currentGyro, statsFresh, cbArg, gyroArg, lp,
                   sinceStop>>

\* -------------------------------------------------------- ImuManager::stop
\* stop() returns to switchSensors, which goes on to start(cb), or to the
\* caller.
ReturnFromStop(t) ==
    /\ cpc' = [cpc EXCEPT ![t] = IF via[t] = "switch" THEN "swStart" ELSE "idle"]
    /\ ilast' = "stopReturn"
    /\ sinceStop' = TRUE

\* a stop that leaves running_ set
RunningAfterStopStale == TRUE

\* line 269: the value stored to running_
RunningAfterStop == FALSE

\* a stop without the early return
NotRunningNever == FALSE

\* line 265
NotRunning == ~running

\* lines 265-267
StopCheck(t) ==
    IF NotRunning
    THEN ReturnFromStop(t)
    ELSE /\ cpc' = [cpc EXCEPT ![t] = "stopStore"]
         /\ ilast' = "other"
         /\ UNCHANGED sinceStop

Stop(t) ==
    /\ Alive
    /\ UNCHANGED <<camVars, dataVars, jniVars>>
    /\ cpc[t] = "idle"
    /\ StopCheck(t)
    /\ Begin(t, "stop")
    /\ UNCHANGED <<memberVars, via, cbArg, gyroArg, lp, wpc, crashed>>

\* line 269
StopStore(t) ==
    /\ Alive
    /\ UNCHANGED <<camVars, dataVars, jniVars>>
    /\ cpc[t] = "stopStore"
    /\ running' = RunningAfterStop
    /\ cpc' = [cpc EXCEPT ![t] = "stopLooper"]
    /\ Inside(t)
    /\ ilast' = "other"
    /\ UNCHANGED <<sensorThread, callback, targetAccelHandle, targetGyroHandle,
                   needsSensorSwitch, sensorManager, looper, eventQueue,
                   currentAccel, currentGyro, statsFresh, via, cbArg, gyroArg,
                   lp, wpc, crashed, sinceStop>>

\* line 272: if (looper_)
StopLooper(t) ==
    /\ Alive
    /\ UNCHANGED <<camVars, dataVars, jniVars>>
    /\ cpc[t] = "stopLooper"
    /\ lp' = [lp EXCEPT ![t] = looper]
    /\ cpc' = [cpc EXCEPT ![t] = IF looper # 0 THEN "stopWake" ELSE "stopJoinable"]
    /\ Inside(t)
    /\ ilast' = "other"
    /\ UNCHANGED <<memberVars, via, cbArg, gyroArg, wpc, crashed, sinceStop>>

\* line 273: ALooper_wake(looper_).  The looper belongs to the worker's
\* thread and nobody else holds a reference: once that thread has exited the
\* pointer dangles, and the call is a use after free that may end the
\* process or pass unnoticed.
StopWake(t) ==
    /\ Alive
    /\ UNCHANGED <<camVars, dataVars, jniVars>>
    /\ cpc[t] = "stopWake"
    /\ lp' = [lp EXCEPT ![t] = 0]
    /\ \E survives \in BOOLEAN :
         IF survives \/ ~Exited(lp[t])
         THEN /\ cpc' = [cpc EXCEPT ![t] = "stopJoinable"]
              /\ UNCHANGED crashed
         ELSE /\ crashed' = "wake"
              /\ UNCHANGED cpc
    /\ Inside(t)
    /\ ilast' = "other"
    /\ UNCHANGED <<memberVars, via, cbArg, gyroArg, wpc, sinceStop>>

\* line 276: if (sensorThread_.joinable())
StopJoinable(t) ==
    /\ Alive
    /\ UNCHANGED <<camVars, dataVars, jniVars>>
    /\ cpc[t] = "stopJoinable"
    /\ IF sensorThread = 0
       THEN ReturnFromStop(t)
       ELSE /\ cpc' = [cpc EXCEPT ![t] = "stopJoin"]
            /\ ilast' = "other"
            /\ UNCHANGED sinceStop
    /\ Inside(t)
    /\ UNCHANGED <<memberVars, via, cbArg, gyroArg, lp, wpc, crashed>>

\* line 277: join() blocks until the worker's thread has ended.  If another
\* thread has joined it meanwhile, join() on the thread object that is no
\* longer joinable throws std::system_error, which nothing catches, or, when
\* the two joins race, does anything.
StopJoin(t) ==
    /\ Alive
    /\ UNCHANGED <<camVars, dataVars, jniVars>>
    /\ cpc[t] = "stopJoin"
    /\ \/ /\ sensorThread # 0
          /\ wpc[sensorThread] = "done"
          /\ wpc' = [wpc EXCEPT ![sensorThread] = "none"]
          /\ sensorThread' = 0
          /\ ReturnFromStop(t)
          /\ UNCHANGED crashed
       \/ /\ sensorThread = 0
          /\ \E survives \in BOOLEAN :
               IF survives
               THEN ReturnFromStop(t) /\ UNCHANGED crashed
               ELSE /\ crashed' = "join"
                    /\ UNCHANGED <<cpc, ilast, sinceStop>>
          /\ UNCHANGED <<wpc, sensorThread>>
    /\ Inside(t)
    /\ UNCHANGED <<running, callback, targetAccelHandle, targetGyroHandle,
                   needsSensorSwitch, sensorManager, looper, eventQueue,
                   currentAccel, currentGyro, statsFresh, via, cbArg, gyroArg,
                   lp>>

\* ----------------------------------------------- ImuManager::switchSensors
\* line 286
SwitchSensors(t, accelHandle, gyroHandle) ==
    /\ Alive
    /\ UNCHANGED <<camVars, dataVars, jniVars>>
    /\ cpc[t] = "idle"
    /\ targetAccelHandle' = accelHandle
    /\ gyroArg' = [gyroArg EXCEPT ![t] = gyroHandle]
    /\ cpc' = [cpc EXCEPT ![t] = "swGyro"]
    /\ Begin(t, "switch")
    /\ ilast' = "other"
    /\ UNCHANGED <<running, sensorThread, callback, targetGyroHandle,
                   needsSensorSwitch, sensorManager, looper, eventQueue,
                   currentAccel, currentGyro, statsFresh, via, cbArg, lp, wpc,
                   crashed, sinceStop>>

\* line 287
SwGyro(t) ==
    /\ Alive
    /\ UNCHANGED <<camVars, dataVars, jniVars>>
    /\ cpc[t] = "swGyro"
    /\ targetGyroHandle' = gyroArg[t]
    /\ gyroArg' = [gyroArg EXCEPT ![t] = -1]
    /\ cpc' = [cpc EXCEPT ![t] = "swCheck"]
    /\ Inside(t)
    /\ ilast' = "other"
    /\ UNCHANGED <<running, sensorThread, callback, targetAccelHandle,
                   needsSensorSwitch, sensorManager, looper, eventQueue,
                   currentAccel, currentGyro, statsFresh, via, cbArg, lp, wpc,
                   crashed, sinceStop>>

\* lines 288-291: needsSensorSwitch_ is stored and never read, so its store
\* goes with the load of running_ that follows it.
SwCheck(t) ==
    /\ Alive
    /\ UNCHANGED <<camVars, dataVars, jniVars>>
    /\ cpc[t] = "swCheck"
    /\ needsSensorSwitch' = TRUE
    /\ cpc' = [cpc EXCEPT ![t] = IF running THEN "swCopy" ELSE "idle"]
    /\ Inside(t)
    /\ ilast' = "other"
    /\ UNCHANGED <<running, sensorThread, callback, targetAccelHandle,
                   targetGyroHandle, sensorManager, looper, eventQueue,
                   currentAccel, currentGyro, statsFresh, via, cbArg, gyroArg,
                   lp, wpc, crashed, sinceStop>>

\* a cb that is left as the caller's thread had it, without the copy
CopiedCallbackNot(t) == cbArg[t]

\* line 292: auto cb = callback_
CopiedCallback(t) == callback

SwCopy(t) ==
    /\ Alive
    /\ UNCHANGED <<camVars, dataVars, jniVars>>
    /\ cpc[t] = "swCopy"
    /\ cbArg' = [cbArg EXCEPT ![t] = CopiedCallback(t)]
    /\ via' = [via EXCEPT ![t] = "switch"]
    /\ cpc' = [cpc EXCEPT ![t] = "swStop"]
    /\ Inside(t)
    /\ ilast' = "other"
    /\ UNCHANGED <<memberVars, gyroArg, lp, wpc, crashed, sinceStop>>

\* line 293: stop()
SwStop(t) ==
    /\ Alive
    /\ UNCHANGED <<camVars, dataVars, jniVars>>
    /\ cpc[t] = "swStop"
    /\ StopCheck(t)
    /\ Inside(t)
    /\ UNCHANGED <<memberVars, via, cbArg, gyroArg, lp, wpc, crashed>>

\* line 294: start(cb)
SwStart(t) ==
    /\ Alive
    /\ UNCHANGED <<camVars, dataVars, jniVars>>
    /\ cpc[t] = "swStart"
    /\ StartCheck(t, cbArg[t])
    /\ Inside(t)
    /\ sinceStop' = FALSE
    /\ ilast' = "other"
    /\ UNCHANGED <<memberVars, gyroArg, lp, wpc, crashed>>

\* ------------------------------------------- ImuManager::sensorThreadLoop
WorkerStepVars == <<running, sensorThread, callback, targetAccelHandle,
                    targetGyroHandle, needsSensorSwitch, sensorManager,
                    callerVars, crashed, lastCall, sinceStop>>

\* lines 300-304; returning ends the thread
PrepareLooper(w) ==
    /\ Alive
    /\ UNCHANGED <<camVars, dataVars, jniVars>>
    /\ wpc[w] = "prepare"
    /\ \E ok \in BOOLEAN :
         /\ looper' = IF ok THEN w ELSE 0
         /\ wpc' = [wpc EXCEPT ![w] = IF ok THEN "createQueue" ELSE "done"]
    /\ ilast' = "other"
    /\ UNCHANGED <<WorkerStepVars, eventQueue, currentAccel, currentGyro,
                   statsFresh>>

\* lines 307-318; returning ends the thread, looper_ keeps its value
CreateEventQueue(w) ==
    /\ Alive
    /\ UNCHANGED <<camVars, dataVars, jniVars>>
    /\ wpc[w] = "createQueue"
    /\ \E ok \in BOOLEAN :
         /\ eventQueue' = ok
         /\ wpc' = [wpc EXCEPT ![w] = IF ok THEN "selectAccel" ELSE "done"]
    /\ ilast' = "other"
    /\ UNCHANGED <<WorkerStepVars, looper, currentAccel, currentGyro,
                   statsFresh>>

\* a fallback to the first sensor of the list
ResolveFirst(handle, default) ==
    IF handle >= 0 /\ handle < Len(SensorList) THEN handle + 1 ELSE 1

\* lines 325-330 and 333-338: sensorList[handle] if the handle is in range,
\* else the default sensor of the channel
Resolve(handle, default) ==
    IF handle >= 0 /\ handle < Len(SensorList) THEN handle + 1 ELSE default

SelectAccel(w) ==
    /\ Alive
    /\ UNCHANGED <<camVars, dataVars, jniVars>>
    /\ wpc[w] = "selectAccel"
    /\ currentAccel' = Resolve(targetAccelHandle, DefaultAccel)
    /\ wpc' = [wpc EXCEPT ![w] = "selectGyro"]
    /\ ilast' = "other"
    /\ UNCHANGED <<WorkerStepVars, looper, eventQueue, currentGyro, statsFresh>>

\* lines 333-376: the gyroscope is resolved and both sensors are registered
SelectGyro(w) ==
    /\ Alive
    /\ UNCHANGED <<camVars, dataVars, jniVars>>
    /\ wpc[w] = "selectGyro"
    /\ currentGyro' = Resolve(targetGyroHandle, DefaultGyro)
    /\ wpc' = [wpc EXCEPT ![w] = "loop"]
    /\ ilast' = "other"
    /\ UNCHANGED <<WorkerStepVars, looper, eventQueue, currentAccel, statsFresh>>

\* line 379: while (running_)
LoopCheck(w) ==
    /\ Alive
    /\ UNCHANGED <<camVars, dataVars, jniVars>>
    /\ wpc[w] = "loop"
    /\ wpc' = [wpc EXCEPT ![w] = IF running THEN "poll" ELSE "cleanup"]
    /\ ilast' = "other"
    /\ UNCHANGED <<WorkerStepVars, looper, eventQueue, currentAccel,
                   currentGyro, statsFresh>>

\* a drainEvents() that matches no event to the gyroscope
IsGyroNever(type) == FALSE

\* a drainEvents() that takes every event for an accelerometer event
IsAccelAny(type) == TRUE

\* lines 410-411
IsAccel(type) == currentAccel # 0 /\ SensorList[currentAccel] = type

IsGyro(type) == currentGyro # 0 /\ SensorList[currentGyro] = type

\* lines 380-383 with drainEvents (403-459): the poll ends by its timeout or
\* a wake, or with an event, which is counted and handed to the callback.
PollOnce(w) ==
    /\ Alive
    /\ UNCHANGED <<camVars, dataVars, jniVars>>
    /\ wpc[w] = "poll"
    /\ wpc' = [wpc EXCEPT ![w] = "loop"]
    /\ \E hasEvent \in BOOLEAN, type \in {SensorList[i] : i \in DOMAIN SensorList} :
         IF hasEvent /\ (IsAccel(type) \/ IsGyro(type))
         THEN /\ statsFresh' = FALSE
              /\ ilast' = IF callback # 0 THEN "callback" ELSE "other"
         ELSE /\ ilast' = "other"
              /\ UNCHANGED statsFresh
    /\ UNCHANGED <<WorkerStepVars, looper, eventQueue, currentAccel, currentGyro>>

\* lines 386-400; the thread ends
WorkerCleanup(w) ==
    /\ Alive
    /\ UNCHANGED <<camVars, dataVars, jniVars>>
    /\ wpc[w] = "cleanup"
    /\ eventQueue' = FALSE
    /\ looper' = 0
    /\ currentAccel' = 0
    /\ currentGyro' = 0
    /\ wpc' = [wpc EXCEPT ![w] = "done"]
    /\ ilast' = "other"
    /\ UNCHANGED <<WorkerStepVars, statsFresh>>

CallerStep(t) ==
    \/ StartStore(t)
    \/ StartStats(t)
    \/ StartSpawn(t)
    \/ StopStore(t)
    \/ StopLooper(t)
    \/ StopWake(t)
    \/ StopJoinable(t)
    \/ StopJoin(t)
    \/ SwGyro(t)
    \/ SwCheck(t)
    \/ SwCopy(t)
    \/ SwStop(t)
    \/ SwStart(t)

WorkerStep(w) ==
    \/ PrepareLooper(w)
    \/ CreateEventQueue(w)
    \/ SelectAccel(w)
    \/ SelectGyro(w)
    \/ LoopCheck(w)
    \/ PollOnce(w)
    \/ WorkerCleanup(w)

ImuNext ==
    \/ \E t \in Callers, cb \in ImuCallbacks : Start(t, cb)
    \/ \E t \in Callers : Stop(t)
    \/ \E t \in Callers, a \in Selectors, g \in Selectors : SwitchSensors(t, a, g)
    \/ \E t \in Callers : CallerStep(t)
    \/ \E w \in Workers : WorkerStep(w)

\* ============================================== Part III: ImuManager data
\* One caller thread, the statistics, the metadata, the cached samples and
\* the events of the platform queue.  The steps of Part II that touch none
\* of these are used as they are.
MaxImuTicks  == 1                \* advances of the boot clock
MaxImuEvents == 2                \* events the sensors produce
MaxSwitches  == 2                \* switchSensors calls
MaxStarts    == 2                \* start() calls of the caller that reset the window

DataCallers   == {1}
WideSelectors == {-1, 1, 2}      \* unspecified, in range, out of range
SensorMinDelay == <<2500, 5000>> \* ASensor_getMinDelay of each SensorList entry
SensorFifo     == <<300, 100>>   \* ASensor_getFifoReservedEventCount

ImuClockValues == {k * kNsToMs : k \in 1..(1 + MaxImuTicks)}

\* ImuManager::getBootTimeNs(): the boot clock never runs backwards
ImuBootTimeNs(t) == t \in ImuClockValues /\ t >= inow

\* ImuSample{}
ZeroSample == [x |-> 0, timestampNs |-> 0, sensorType |-> "none"]

\* a float that is 0, as a fraction
ZeroRatio == <<0, 1>>

\* ImuStats{}
ZeroStats ==
    [accelFrequencyHz |-> ZeroRatio, accelLatencyMs |-> ZeroRatio,
     gyroFrequencyHz |-> ZeroRatio, gyroLatencyMs |-> ZeroRatio]

DataInit ==
    /\ statsWindowStart = 0
    /\ accelCount = 0
    /\ gyroCount = 0
    /\ accelLatencyTotal = 0
    /\ gyroLatencyTotal = 0
    /\ accelMinDelay = 0
    /\ accelFifo = 0
    /\ gyroMinDelay = 0
    /\ gyroFifo = 0
    /\ latestAccel = ZeroSample
    /\ latestGyro = ZeroSample
    /\ inow = kNsToMs
    /\ defaultAccel \in {0, DefaultAccel}
    /\ defaultGyro \in {0, DefaultGyro}
    /\ queue = <<>>
    /\ produced = 0
    /\ discarded = {}
    /\ drainNow = 0
    /\ delivered = <<>>
    /\ switchNo = 0
    /\ accelFrom = -1
    /\ gyroFrom = -1
    /\ swRunning = FALSE
    /\ swCallback = 0
    /\ swArgs = <<-1, -1>>
    /\ starts = 0
    /\ taken = <<>>
    /\ cleanSince = -1

\* lines 251-258: the window starts at the clock value read, the counters
\* and the latency sums are zeroed
StartStatsData(t) ==
    /\ Alive
    /\ UNCHANGED <<camVars, jniVars>>
    /\ cpc[t] = "startStats"
    /\ \E n \in ImuClockValues :
         /\ ImuBootTimeNs(n)
         /\ inow' = n
         /\ statsWindowStart' = n
    /\ accelCount' = 0
    /\ gyroCount' = 0
    /\ accelLatencyTotal' = 0
    /\ gyroLatencyTotal' = 0
    /\ statsFresh' = TRUE
    /\ cleanSince' = -1
    /\ starts' = IF via[t] = "direct" THEN starts + 1 ELSE starts
    /\ cpc' = [cpc EXCEPT ![t] = "startSpawn"]
    /\ Inside(t)
    /\ ilast' = "other"
    /\ UNCHANGED <<running, sensorThread, callback, targetAccelHandle,
                   targetGyroHandle, needsSensorSwitch, sensorManager, looper,
                   eventQueue, currentAccel, currentGyro, via, cbArg, gyroArg,
                   lp, wpc, crashed, sinceStop>>
    /\ UNCHANGED <<metaVars, latestVars, defaultAccel, defaultGyro, queue,
                   produced, discarded, drainNow, delivered, switchNo,
                   accelFrom, gyroFrom, swRunning, swCallback, swArgs, taken>>

\* lines 236-245: start() at any time while the engine runs, and while the
\* caller has starts left; the history notes a call that found it running
StartData(t, cb) ==
    /\ Alive
    /\ UNCHANGED <<camVars, jniVars>>
    /\ cpc[t] = "idle"
    /\ running \/ starts < MaxStarts
    /\ StartCheck(t, cb)
    /\ Begin(t, "start")
    /\ sinceStop' = FALSE
    /\ ilast' = IF running THEN "startNoop" ELSE "other"
    /\ UNCHANGED <<memberVars, gyroArg, lp, wpc, crashed, dataVars>>

\* line 286, with the history of the call
SwitchSensorsData(t, accelHandle, gyroHandle) ==
    /\ Alive
    /\ UNCHANGED <<camVars, jniVars>>
    /\ cpc[t] = "idle"
    /\ switchNo < MaxSwitches
    /\ targetAccelHandle' = accelHandle
    /\ gyroArg' = [gyroArg EXCEPT ![t] = gyroHandle]
    /\ cpc' = [cpc EXCEPT ![t] = "swGyro"]
    /\ Begin(t, "switch")
    /\ ilast' = "other"
    /\ switchNo' = switchNo + 1
    /\ swRunning' = running
    /\ swCallback' = callback
    /\ swArgs' = <<accelHandle, gyroHandle>>
    /\ UNCHANGED <<running, sensorThread, callback, targetGyroHandle,
                   needsSensorSwitch, sensorManager, looper, eventQueue,
                   currentAccel, currentGyro, statsFresh, via, cbArg, lp, wpc,
                   crashed, sinceStop>>
    /\ UNCHANGED <<imuStatVars, metaVars, latestVars, platformVars, drainNow,
                   delivered, accelFrom, gyroFrom, starts, taken, cleanSince>>

\* The switchSensors call that stored the value of targetGyroHandle_: with
\* one caller, the call in progress has stored its accelerometer selector
\* and not yet its gyroscope selector exactly while it stands at line 287.
GyroStamp ==
    IF \E t \in DataCallers : cpc[t] = "swGyro" THEN switchNo - 1 ELSE switchNo

\* lines 324-330
SelectAccelData(w) ==
    /\ Alive
    /\ UNCHANGED <<camVars, jniVars>>
    /\ wpc[w] = "selectAccel"
    /\ currentAccel' = Resolve(targetAccelHandle, defaultAccel)
    /\ accelFrom' = switchNo
    /\ gyroFrom' = -1
    /\ wpc' = [wpc EXCEPT ![w] = "selectGyro"]
    /\ ilast' = "other"
    /\ UNCHANGED <<WorkerStepVars, looper, eventQueue, currentGyro, statsFresh>>
    /\ UNCHANGED <<imuStatVars, metaVars, latestVars, platformVars, drainNow,
                   delivered, switchNo, swRunning, swCallback, swArgs,
                   starts, taken, cleanSince>>

\* lines 332-338
SelectGyroData(w) ==
    /\ Alive
    /\ UNCHANGED <<camVars, jniVars>>
    /\ wpc[w] = "selectGyro"
    /\ currentGyro' = Resolve(targetGyroHandle, defaultGyro)
    /\ gyroFrom' = GyroStamp
    /\ wpc' = [wpc EXCEPT ![w] = "registerAccel"]
    /\ ilast' = "other"
    /\ UNCHANGED <<WorkerStepVars, looper, eventQueue, currentAccel, statsFresh>>
    /\ UNCHANGED <<imuStatVars, metaVars, latestVars, platformVars, drainNow,
                   delivered, switchNo, accelFrom, swRunning, swCallback,
                   swArgs, starts, taken, cleanSince>>

\* lines 341-357: the metadata of the accelerometer, 0 if there is none
RegisterAccel(w) ==
    /\ Alive
    /\ UNCHANGED <<camVars, jniVars>>
    /\ wpc[w] = "registerAccel"
    /\ accelMinDelay' = IF currentAccel # 0 THEN SensorMinDelay[currentAccel] ELSE 0
    /\ accelFifo' = IF currentAccel # 0 THEN SensorFifo[currentAccel] ELSE 0
    /\ wpc' = [wpc EXCEPT ![w] = "registerGyro"]
    /\ ilast' = "other"
    /\ UNCHANGED <<WorkerStepVars, looper, eventQueue, currentAccel,
                   currentGyro, statsFresh>>
    /\ UNCHANGED <<imuStatVars, gyroMinDelay, gyroFifo, latestVars,
                   platformVars, drainNow, dataHist>>

\* lines 359-376
RegisterGyro(w) ==
    /\ Alive
    /\ UNCHANGED <<camVars, jniVars>>
    /\ wpc[w] = "registerGyro"
    /\ gyroMinDelay' = IF currentGyro # 0 THEN SensorMinDelay[currentGyro] ELSE 0
    /\ gyroFifo' = IF currentGyro # 0 THEN SensorFifo[currentGyro] ELSE 0
    /\ wpc' = [wpc EXCEPT ![w] = "loop"]
    /\ ilast' = "other"
    /\ UNCHANGED <<WorkerStepVars, looper, eventQueue, currentAccel,
                   currentGyro, statsFresh>>
    /\ UNCHANGED <<imuStatVars, accelMinDelay, accelFifo, latestVars,
                   platformVars, drainNow, dataHist>>

\* The sensor types the event queue has been told to report
\* (ASensorEventQueue_registerSensor, lines 348 and 365).
RegisteredTypes ==
    (IF /\ currentAccel # 0
        /\ \E w \in Workers : wpc[w] \in {"registerGyro", "loop", "poll", "drain"}
     THEN {SensorList[currentAccel]} ELSE {})
    \cup
    (IF /\ currentGyro # 0
        /\ \E w \in Workers : wpc[w] \in {"loop", "poll", "drain"}
     THEN {SensorList[currentGyro]} ELSE {})

\* The platform: a registered sensor produces an event, stamped with the
\* hardware time, and the queue holds it.
SensorEvent ==
    /\ Alive
    /\ UNCHANGED <<camVars, jniVars>>
    /\ eventQueue
    /\ produced < MaxImuEvents
    /\ \E type \in RegisteredTypes :
         queue' = Append(queue, [type |-> type, timestamp |-> inow,
                                 x |-> produced + 1])
    /\ produced' = produced + 1
    /\ UNCHANGED <<memberVars, callerVars, wpc, crashed, imuHist>>
    /\ UNCHANGED <<imuStatVars, metaVars, latestVars, inow, defaultAccel,
                   defaultGyro, discarded, drainNow, dataHist>>

\* lines 380-383 and 405: the poll ends with an event, and drainEvents()
\* reads the clock once, or by its timeout or a wake
PollOnceData(w) ==
    /\ Alive
    /\ UNCHANGED <<camVars, jniVars>>
    /\ wpc[w] = "poll"
    /\ IF queue # <<>>
       THEN /\ wpc' = [wpc EXCEPT ![w] = "drain"]
            /\ \E n \in ImuClockValues :
                 /\ ImuBootTimeNs(n)
                 /\ inow' = n
                 /\ drainNow' = n
       ELSE /\ wpc' = [wpc EXCEPT ![w] = "loop"]
            /\ UNCHANGED <<inow, drainNow>>
    /\ ilast' = "other"
    /\ UNCHANGED <<WorkerStepVars, looper, eventQueue, currentAccel,
                   currentGyro, statsFresh>>
    /\ UNCHANGED <<imuStatVars, metaVars, latestVars, defaultAccel,
                   defaultGyro, queue, produced, discarded, dataHist>>

\* an event queue whose reads find nothing
GetEventsNone(q) == 0

\* line 408: ASensorEventQueue_getEvents(eventQueue_, &event, 1), the number
\* of events it hands over
GetEvents(q) == IF q = <<>> THEN 0 ELSE 1

\* a sample that carries nothing of the event
SampleOfNothing(event, sensorType) == ZeroSample

\* lines 413-417 and 431-435
SampleOf(event, sensorType) ==
    [x |-> event.x, timestampNs |-> event.timestamp, sensorType |-> sensorType]

\* lines 408-458: one turn of the loop of drainEvents(); with no event left
\* the worker is back at the check of running_
DrainEvent(w) ==
    /\ Alive
    /\ UNCHANGED <<camVars, jniVars>>
    /\ wpc[w] = "drain"
    /\ IF ~(GetEvents(queue) > 0)
       THEN /\ wpc' = [wpc EXCEPT ![w] = "loop"]
            /\ ilast' = "other"
            /\ UNCHANGED <<queue, imuStatVars, latestVars, statsFresh,
                           delivered, taken, cleanSince>>
       ELSE LET event == Head(queue)
                isAccel == IsAccel(event.type)
                isGyro == ~isAccel /\ IsGyro(event.type)   \* else if
                sample == SampleOf(event, IF isAccel THEN "Accelerometer"
                                          ELSE IF isGyro THEN "Gyroscope"
                                          ELSE "none")
                channel == IF isAccel THEN "accel" ELSE "gyro"
            IN  /\ queue' = Tail(queue)
                /\ latestAccel' = IF isAccel THEN sample ELSE latestAccel
                /\ latestGyro' = IF isGyro THEN sample ELSE latestGyro
                /\ accelCount' = IF isAccel THEN accelCount + 1 ELSE accelCount
                /\ accelLatencyTotal' =
                     IF isAccel THEN accelLatencyTotal + (drainNow - event.timestamp)
                     ELSE accelLatencyTotal
                /\ gyroCount' = IF isGyro THEN gyroCount + 1 ELSE gyroCount
                /\ gyroLatencyTotal' =
                     IF isGyro THEN gyroLatencyTotal + (drainNow - event.timestamp)
                     ELSE gyroLatencyTotal
                /\ UNCHANGED statsWindowStart
                /\ IF isAccel \/ isGyro
                   THEN /\ statsFresh' = FALSE
                        /\ cleanSince' = -1
                        /\ taken' = Append(taken, <<channel, event>>)
                   ELSE UNCHANGED <<statsFresh, cleanSince, taken>>
                /\ IF callback # 0 /\ (isAccel \/ isGyro)
                   THEN /\ delivered' = Append(delivered, <<channel, sample>>)
                        /\ ilast' = "callback"
                   ELSE /\ ilast' = "other"
                        /\ UNCHANGED delivered
                /\ UNCHANGED wpc
    /\ UNCHANGED <<WorkerStepVars, looper, eventQueue, currentAccel, currentGyro>>
    /\ UNCHANGED <<metaVars, inow, defaultAccel, defaultGyro, produced,
                   discarded, drainNow, switchNo, accelFrom, gyroFrom,
                   swRunning, swCallback, swArgs, starts>>

\* lines 386-400; the events still in the queue go with it
WorkerCleanupData(w) ==
    /\ Alive
    /\ UNCHANGED <<camVars, jniVars>>
    /\ wpc[w] = "cleanup"
    /\ eventQueue' = FALSE
    /\ looper' = 0
    /\ currentAccel' = 0
    /\ currentGyro' = 0
    /\ wpc' = [wpc EXCEPT ![w] = "done"]
    /\ discarded' = discarded \cup {queue[i].x : i \in DOMAIN queue}
    /\ queue' = <<>>
    /\ ilast' = "other"
    /\ UNCHANGED <<WorkerStepVars, statsFresh>>
    /\ UNCHANGED <<imuStatVars, metaVars, latestVars, inow, defaultAccel,
                   defaultGyro, produced, drainNow, dataHist>>

\* lines 478-481: count / dtSeconds as the fraction count : dt in ns,
\* 0 for an empty or negative window
RateHz(count, dtNs) ==
    IF dtNs > 0 /\ count # 0 THEN <<count, dtNs>> ELSE ZeroRatio

\* lines 483-491: total / count / kNsToMs as a fraction
LatencyMs(total, count) ==
    IF count > 0 /\ total # 0 THEN <<total, count * kNsToMs>> ELSE ZeroRatio

\* lines 476-491: the ImuStats that getStats() returns when it reads the
\* clock value n
StatsValue(n) ==
    [accelFrequencyHz |-> RateHz(accelCount, n - statsWindowStart),
     accelLatencyMs |-> LatencyMs(accelLatencyTotal, accelCount),
     gyroFrequencyHz |-> RateHz(gyroCount, n - statsWindowStart),
     gyroLatencyMs |-> LatencyMs(gyroLatencyTotal, gyroCount)]

\* a getStats() that leaves the counters and the sums as they are
ConsumeCountersNot ==
    UNCHANGED <<accelCount, gyroCount, accelLatencyTotal, gyroLatencyTotal>>

\* lines 495-499
ConsumeCounters ==
    /\ accelCount' = 0
    /\ gyroCount' = 0
    /\ accelLatencyTotal' = 0
    /\ gyroLatencyTotal' = 0

\* lines 471-502, under statsMutex_: StatsValue(inow') is returned; the
\* history tells a call that follows another with nothing counted between
GetStats(t) ==
    /\ Alive
    /\ UNCHANGED <<camVars, jniVars>>
    /\ cpc[t] = "idle"
    /\ \E n \in ImuClockValues :
         /\ ImuBootTimeNs(n)
         /\ inow' = n
         /\ statsWindowStart' = n
         /\ cleanSince' = n
    /\ ConsumeCounters
    /\ statsFresh' = TRUE
    /\ ilast' = IF cleanSince # -1 THEN "getStatsAgain" ELSE "getStats"
    /\ UNCHANGED <<running, sensorThread, callback, targetAccelHandle,
                   targetGyroHandle, needsSensorSwitch, sensorManager, looper,
                   eventQueue, currentAccel, currentGyro, callerVars, wpc,
                   crashed, lastCall, sinceStop>>
    /\ UNCHANGED <<metaVars, latestVars, defaultAccel, defaultGyro, queue,
                   produced, discarded, drainNow, delivered, switchNo,
                   accelFrom, gyroFrom, swRunning, swCallback, swArgs, starts,
                   taken>>

\* A getter that only reads: the members stay, the history notes the call.
Getter(t, name) ==
    /\ Alive
    /\ UNCHANGED <<camVars, jniVars>>
    /\ cpc[t] = "idle"
    /\ ilast' = name
    /\ UNCHANGED <<memberVars, callerVars, wpc, crashed, lastCall, sinceStop,
                   dataVars>>

\* lines 504-513: the ImuSensorMetadata that getMetadata() returns
MetadataValue ==
    [accelMinDelayUs |-> accelMinDelay,
     accelFifoReserved |-> accelFifo,
     gyroMinDelayUs |-> gyroMinDelay,
     gyroFifoReserved |-> gyroFifo,
     accelName |-> IF currentAccel # 0 THEN SensorList[currentAccel] ELSE "None",
     gyroName |-> IF currentGyro # 0 THEN SensorList[currentGyro] ELSE "None"]

\* getMetadata() returns MetadataValue
GetMetadata(t) == Getter(t, "getMetadata")

\* lines 461-464: getLatestAccel() returns latestAccel_
GetLatestAccel(t) == Getter(t, "getLatestAccel")

\* lines 466-469: getLatestGyro() returns latestGyro_
GetLatestGyro(t) == Getter(t, "getLatestGyro")

\* ---- the caller starts, stops and reads; the worker handles events
DataCallerStep(t) ==
    \/ StartStore(t)
    \/ StartStatsData(t)
    \/ StartSpawn(t)
    \/ StopStore(t)
    \/ StopLooper(t)
    \/ StopWake(t)
    \/ StopJoinable(t)
    \/ StopJoin(t)

DataWorkerStep(w) ==
    \/ PrepareLooper(w)
    \/ CreateEventQueue(w)
    \/ SelectAccelData(w)
    \/ SelectGyroData(w)
    \/ RegisterAccel(w)
    \/ RegisterGyro(w)
    \/ LoopCheck(w)
    \/ PollOnceData(w)
    \/ DrainEvent(w)
    \/ WorkerCleanupData(w)

DataNext ==
    \/ \E t \in DataCallers, cb \in ImuCallbacks : StartData(t, cb)
    \/ \E t \in DataCallers : Stop(t)
    \/ \E t \in DataCallers : DataCallerStep(t)
    \/ \E w \in Workers : DataWorkerStep(w)
    \/ SensorEvent
    \/ \E t \in DataCallers : GetStats(t)
    \/ \E t \in DataCallers : GetMetadata(t)
    \/ \E t \in DataCallers : GetLatestAccel(t)
    \/ \E t \in DataCallers : GetLatestGyro(t)

\* ---- the caller starts, stops, switches sensors and reads the metadata;
\* no sensor produces an event
SwitchCallerStep(t) ==
    \/ StartStore(t)
    \/ StartStatsData(t)
    \/ StartSpawn(t)
    \/ StopStore(t)
    \/ StopLooper(t)
    \/ StopWake(t)
    \/ StopJoinable(t)
    \/ StopJoin(t)
    \/ SwGyro(t)
    \/ SwCheck(t)
    \/ SwCopy(t)
    \/ SwStop(t)
    \/ SwStart(t)

SwitchWorkerStep(w) ==
    \/ PrepareLooper(w)
    \/ CreateEventQueue(w)
    \/ SelectAccelData(w)
    \/ SelectGyroData(w)
    \/ RegisterAccel(w)
    \/ RegisterGyro(w)
    \/ LoopCheck(w)
    \/ PollOnceData(w)
    \/ WorkerCleanupData(w)

SwitchNext ==
    \/ \E t \in DataCallers, cb \in ImuCallbacks : StartData(t, cb)
    \/ \E t \in DataCallers : Stop(t)
    \/ \E t \in DataCallers, a \in WideSelectors, g \in WideSelectors :
         SwitchSensorsData(t, a, g)
    \/ \E t \in DataCallers : SwitchCallerStep(t)
    \/ \E w \in Workers : SwitchWorkerStep(w)
    \/ \E t \in DataCallers : GetMetadata(t)

\* ======================================================================
\* Part IV  CameraManager::classifyCamera (camera_manager.cpp 180-227), a
\* static function of a descriptor and a camera id.  A string is a sequence
\* of one-character strings.
\* ======================================================================
kHighResThreshold == 1920 * 1080

MaxDim == 3840              \* largest width or height of a descriptor

Facings == {"Unknown", "Front", "Back", "External"}    \* CameraFacing
Dims    == {0, 480, 640, 1080, 1920, 2160, 3840, MaxDim}

UpperToLower ==
    ("A" :> "a") @@ ("D" :> "d") @@ ("E" :> "e") @@ ("F" :> "f") @@
    ("I" :> "i") @@ ("O" :> "o") @@ ("R" :> "r") @@ ("T" :> "t") @@
    ("Y" :> "y")

\* std::tolower in the "C" locale
ToLowerChar(c) == IF c \in DOMAIN UpperToLower THEN UpperToLower[c] ELSE c

toLower(str) == [i \in 1..Len(str) |-> ToLowerChar(str[i])]

\* std::string::find(needle) != npos
Contains(hay, needle) ==
    \E i \in 1..(Len(hay) - Len(needle) + 1) :
        SubSeq(hay, i, i + Len(needle) - 1) = needle

kwEye   == <<"e", "y", "e">>
kwGaze  == <<"g", "a", "z", "e">>
kwIr    == <<"i", "r">>
kwDepth == <<"d", "e", "p", "t", "h">>
kwTof   == <<"t", "o", "f">>
kwTrack == <<"t", "r", "a", "c", "k">>
kwSlam  == <<"s", "l", "a", "m">>

\* the camera ids a platform reports
ClassifyIds ==
    { <<"r", "e", "a", "r", "0">>,
      <<"t", "r", "a", "c", "k", "0">>,
      <<"e", "y", "e", "_", "i", "r">>,
      <<"l", "e", "y", "e", "_", "i", "r", "2">>,
      <<"E", "Y", "E", "0">>,
      <<"g", "a", "z", "e">>,
      <<"F", "I", "R", "S", "T">>,
      <<"D", "e", "p", "t", "h", "_", "i", "r">>,
      <<"t", "o", "f", "_", "s", "l", "a", "m">>,
      <<"d", "e", "p", "t", "h", "t", "r", "a", "c", "k">>,
      <<"s", "l", "a", "m">>,
      <<"0">>,
      <<>> }

\* a classifier that skips the eye/gaze/ir test
EyeKeywordNever(lowerId) == FALSE

EyeKeyword(lowerId) ==
    Contains(lowerId, kwEye) \/ Contains(lowerId, kwGaze)
        \/ Contains(lowerId, kwIr)

DepthKeyword(lowerId) ==
    Contains(lowerId, kwDepth) \/ Contains(lowerId, kwTof)

TrackKeyword(lowerId) ==
    Contains(lowerId, kwTrack) \/ Contains(lowerId, kwSlam)

\* a classifier without the external-camera rule
ExternalFacingNever(facing) == FALSE

\* line 217: an external camera is a tracking camera whatever its resolution
ExternalFacing(facing) == facing = "External"

\* int32_t resolution = info.width * info.height; no product of two
\* dimensions up to MaxDim + 1 leaves the int32_t range
Resolution(i) == i.width * i.height

classifyCamera(i, id) ==
    LET lowerId    == toLower(id)
        resolution == Resolution(i)
    IN  IF EyeKeyword(lowerId) THEN "EyeTracking"
        ELSE IF DepthKeyword(lowerId) THEN "Depth"
        ELSE IF TrackKeyword(lowerId) THEN "Avatar"
        ELSE IF resolution >= kHighResThreshold THEN "Passthrough"
        ELSE IF i.facing = "Front" /\ resolution > 0 THEN "Avatar"
        ELSE IF ExternalFacing(i.facing) THEN "Avatar"
        ELSE IF resolution > 0 /\ resolution < kHighResThreshold THEN "Avatar"
        ELSE "Unknown"

Descriptors ==
    [id : ClassifyIds, facing : Facings, width : Dims, height : Dims]

ClsInit ==
    /\ info \in Descriptors
    /\ clusterType = "none"

\* the descriptor no specification of the other parts looks at
ClsQuiet ==
    /\ info = [id |-> <<>>, facing |-> "Unknown", width |-> 0, height |-> 0]
    /\ clusterType = "none"

\* line 74: info.clusterType = classifyCamera(info, id), with id = info.id
Classify ==
    /\ clusterType = "none"
    /\ clusterType' = classifyCamera(info, info.id)
    /\ UNCHANGED <<info, camVars, imuVars, lockVars, regVars, ringVars, ordVars>>

ClsNext ==
    \/ Classify

\* ======================================================================
\* Part V  The threads of one CameraStream around statsMutex_
\* (camera_manager.cpp 486-528): camera-service threads delivering
\* onCaptureStarted, one thread calling getStats(), and the control thread
\* of Part I.  The clock advances in steps of TickNs.
\* ======================================================================
MaxStatFrames == 2           \* capture-start notifications per start

NotifyThreads == {1, 2}      \* camera-service threads

ClockCeiling == 2 * kNsPerSecond

LockInit ==
    /\ statsMutex = 0
    /\ npc = [t \in NotifyThreads |-> "idle"]
    /\ nnow = [t \in NotifyThreads |-> 0]
    /\ nts = [t \in NotifyThreads |-> 0]
    /\ gpc = "idle"

\* CLOCK_BOOTTIME goes on
StatTick ==
    /\ now <= ClockCeiling - TickNs
    /\ now' = now + TickNs
    /\ last' = "tick"
    /\ stopsInRow' = 0
    /\ UNCHANGED <<streamVars, frameCount, droppedFrames, prevFrameTimestampNs,
                   lastFrameRateHz, lastLatencyMs, lastCallbackTimeNs,
                   callbackInvokedAt, sessionInvokedAt, pc, envVars,
                   nativeVars, ghostVars, lastResult, notified, imuVars,
                   jniVars>>

\* lines 555-559 and 499-500: onCaptureStarted calls updateStats, which reads
\* the clock and counts the frame before it asks for statsMutex_; the frame
\* was captured at the clock value of its delivery or one tick earlier
NotifyEnter(t) ==
    /\ repeating
    /\ ~destroyed
    /\ npc[t] = "idle"
    /\ frameCount < MaxStatFrames
    /\ npc' = [npc EXCEPT ![t] = "lock"]
    /\ nnow' = [nnow EXCEPT ![t] = now]
    /\ \E ts \in {now, now - TickNs} \cap Nat : nts' = [nts EXCEPT ![t] = ts]
    /\ frameCount' = frameCount + 1
    /\ last' = "onCaptureStarted"
    /\ stopsInRow' = 0
    /\ UNCHANGED <<streamVars, droppedFrames, prevFrameTimestampNs,
                   lastFrameRateHz, lastLatencyMs, lastCallbackTimeNs, now,
                   callbackInvokedAt, sessionInvokedAt, pc, envVars,
                   nativeVars, ghostVars, lastResult, notified, imuVars,
                   clsVars, regVars, ringVars, ordVars, statsMutex, gpc>>

\* a throttle that lets every notification through
CallbackDueAlways(nowNs) == statsCallback # 0

\* line 519
CallbackDue(nowNs) ==
    statsCallback # 0 /\ nowNs - lastCallbackTimeNs >= kNsPerSecond

\* lines 502-525: with statsMutex_ held, rate and latency; when the callback
\* is due the thread goes on into statsCallback_(stats), still holding it
NotifyUpdate(t) ==
    /\ npc[t] = "lock"
    /\ statsMutex = 0
    /\ lastFrameRateHz' =
          IF RateDue(nts[t])
          THEN Rate(nts[t] - prevFrameTimestampNs) ELSE lastFrameRateHz
    /\ prevFrameTimestampNs' = nts[t]
    /\ lastLatencyMs' =
          IF nts[t] > 0 /\ nnow[t] > nts[t]
          THEN (nnow[t] - nts[t]) \div kNsToMs ELSE lastLatencyMs
    /\ IF CallbackDue(nnow[t])
       THEN /\ statsMutex' = t
            /\ npc' = [npc EXCEPT ![t] = "invoke"]
            /\ callbackInvokedAt' = nnow[t]
            /\ sessionInvokedAt' = nnow[t]
            /\ last' = "statsCallback"
       ELSE /\ npc' = [npc EXCEPT ![t] = "idle"]
            /\ last' = "updateStats"
            /\ UNCHANGED <<statsMutex, callbackInvokedAt, sessionInvokedAt>>
    /\ stopsInRow' = 0
    /\ UNCHANGED <<streamVars, frameCount, droppedFrames, lastCallbackTimeNs,
                   now, pc, envVars, nativeVars, ghostVars, lastResult,
                   notified, imuVars, clsVars, regVars, ringVars, ordVars, nnow, nts, gpc>>

\* lines 524-527: the callback returns, lastCallbackTimeNs_ = now, unlock
NotifyReturn(t) ==
    /\ npc[t] = "invoke"
    /\ statsMutex = t
    /\ lastCallbackTimeNs' = nnow[t]
    /\ statsMutex' = 0
    /\ npc' = [npc EXCEPT ![t] = "idle"]
    /\ last' = "updateStats"
    /\ stopsInRow' = 0
    /\ UNCHANGED <<streamVars, frameCount, droppedFrames, prevFrameTimestampNs,
                   lastFrameRateHz, lastLatencyMs, now, callbackInvokedAt,
                   sessionInvokedAt, pc, envVars, nativeVars, ghostVars,
                   lastResult, notified, imuVars, clsVars, regVars, ringVars, ordVars, nnow, nts, gpc>>

\* CameraStats of lines 489-493
CameraStatsValue ==
    [frameRateHz   |-> lastFrameRateHz,
     latencyMs     |-> lastLatencyMs,
     frameCount    |-> frameCount,
     droppedFrames |-> droppedFrames]

\* a getStats() that reads and resets the counters
ReadCountersReset ==
    /\ frameCount' = 0
    /\ droppedFrames' = 0

\* lines 492-493: two loads
ReadCounters == UNCHANGED <<frameCount, droppedFrames>>

\* line 487: the caller arrives at std::lock_guard(statsMutex_)
GetStatsCall ==
    /\ ~destroyed
    /\ gpc = "idle"
    /\ gpc' = "lock"
    /\ last' = "getStatsCall"
    /\ stopsInRow' = 0
    /\ UNCHANGED <<streamVars, statVars, pc, envVars, nativeVars, ghostVars,
                   lastResult, notified, imuVars, clsVars, regVars, ringVars, ordVars, statsMutex, npc,
                   nnow, nts>>

\* lines 487-495: lock, copy, unlock, return
GetStatsCopy ==
    /\ gpc = "lock"
    /\ statsMutex = 0
    /\ gpc' = "idle"
    /\ ReadCounters
    /\ last' = "getStats"
    /\ stopsInRow' = 0
    /\ UNCHANGED <<streamVars, prevFrameTimestampNs, lastFrameRateHz,
                   lastLatencyMs, lastCallbackTimeNs, now, callbackInvokedAt,
                   sessionInvokedAt, pc, envVars, nativeVars, ghostVars,
                   lastResult, notified, imuVars, clsVars, regVars, ringVars, ordVars, statsMutex, npc,
                   nnow, nts>>

\* startPreview of Part I; its statistics reset (lines 304-309) needs
\* statsMutex_
CallStartPreviewStats ==
    /\ statsMutex = 0
    /\ \E cb \in Callbacks : StartPreview("cam0", 1, cb)

StatsNext ==
    \/ CallStartPreviewStats
    \/ OpenCamera
    \/ CreateTarget
    \/ CreateRequest
    \/ AddTarget
    \/ CreateContainer
    \/ CreateOutput
    \/ ContainerAdd
    \/ CreateSession
    \/ SetRepeating
    \/ MarkStreaming
    \/ StopPreview
    \/ StatTick
    \/ \E t \in NotifyThreads : NotifyEnter(t)
    \/ \E t \in NotifyThreads : NotifyUpdate(t)
    \/ \E t \in NotifyThreads : NotifyReturn(t)
    \/ GetStatsCall
    \/ GetStatsCopy

\* ======================================================================
\* Part VI  The JNI bridge's registry of streams (camera_manager.h 78-129,
\* 298-326): g_cameraStreams under g_cameraMutex, and the threads inside
\* nativeStartPreview, nativeStopCameraPreview and nativeStopPreview.  A
\* stream object is a number; of its CameraStream the part keeps whether it
\* streams, whether it holds native resources, its frame count and the
\* holder of its mutex_.
\* ======================================================================
MaxObjs      == 3            \* CameraStream objects ever constructed
MaxRegFrames == 1            \* capture-start notifications per start

RegIds     == {"cam0", "cam1"}
Objs       == 1..MaxObjs
JniThreads == {1, 2}

NoObj == [state |-> "none", cameraId |-> NoId, streaming |-> FALSE,
          held |-> FALSE, frames |-> 0, busy |-> 0]

IdleThread == [pc |-> "idle", op |-> "none", id |-> NoId, ptr |-> 0,
               result |-> "none", left |-> {}]

RegInit ==
    /\ g_cameraStreams = [id \in RegIds |-> 0]
    /\ g_cameraMutex = 0
    /\ obj = [o \in Objs |-> NoObj]
    /\ jt = [t \in JniThreads |-> IdleThread]
    /\ invokedOnDestroyed = FALSE

RegFrame == UNCHANGED <<camVars, imuVars, clsVars, lockVars, ringVars, ordVars>>

ObjAlive(o) == obj[o].state = "alive"

\* a lookup that finds nothing
FoundNever(id) == FALSE

\* lines 104-105: it != g_cameraStreams.end()
Found(id) == g_cameraStreams[id] # 0

\* lines 298-322 and 99-112: nativeStartPreview up to the return of
\* getOrCreateCameraStream; the lock is taken and released inside.  The
\* assignment of line 108 destroys the stream the entry held before.
GetOrCreateCameraStream(t, id) ==
    /\ jt[t].pc = "idle"
    /\ g_cameraMutex = 0
    /\ IF Found(id)
       THEN /\ jt' = [jt EXCEPT ![t] = [IdleThread EXCEPT
                        !.pc = "haveStream", !.op = "start", !.id = id,
                        !.ptr = g_cameraStreams[id]]]
            /\ UNCHANGED <<g_cameraStreams, obj>>
       ELSE \E o \in Objs :
            /\ obj[o].state = "none"
            /\ \A p \in Objs : p < o => obj[p].state # "none"
            /\ obj' = [p \in Objs |->
                         IF p = o
                         THEN [NoObj EXCEPT !.state = "alive", !.cameraId = id]
                         ELSE IF p = g_cameraStreams[id]
                         THEN [obj[p] EXCEPT !.state = "replaced"]
                         ELSE obj[p]]
            /\ g_cameraStreams' = [g_cameraStreams EXCEPT ![id] = o]
            /\ jt' = [jt EXCEPT ![t] = [IdleThread EXCEPT
                        !.pc = "haveStream", !.op = "start", !.id = id,
                        !.ptr = o]]
    /\ UNCHANGED <<g_cameraMutex, invokedOnDestroyed>>
    /\ RegFrame

\* line 323 and CameraStream::startPreview up to its early return: the call
\* goes through the raw pointer, with no lock of the registry held.  On a
\* destroyed object the behaviour is undefined; the call is recorded and the
\* thread is taken to return.
StartPreviewCall(t) ==
    LET o == jt[t].ptr
    IN  /\ jt[t].pc = "haveStream"
        /\ IF ~ObjAlive(o)
           THEN /\ invokedOnDestroyed' = TRUE
                /\ jt' = [jt EXCEPT ![t].pc = "idle", ![t].result = "undefined"]
                /\ UNCHANGED obj
           ELSE /\ obj[o].busy = 0
                /\ UNCHANGED invokedOnDestroyed
                /\ IF obj[o].streaming
                   THEN /\ jt' = [jt EXCEPT ![t].pc = "idle",
                                            ![t].result = "true"]
                        /\ UNCHANGED obj
                   ELSE /\ jt' = [jt EXCEPT ![t].pc = "opening"]
                        /\ obj' = [obj EXCEPT ![o].busy = t, ![o].frames = 0]
        /\ UNCHANGED <<g_cameraStreams, g_cameraMutex>>
        /\ RegFrame

\* CameraStream::startPreview from the camera open to its return, and lines
\* 324-326
StartPreviewReturn(t) ==
    LET o == jt[t].ptr
    IN  /\ jt[t].pc = "opening"
        /\ \E ok \in BOOLEAN :
             /\ obj' = [obj EXCEPT ![o].busy = 0, ![o].streaming = ok,
                                   ![o].held = ok]
             /\ jt' = [jt EXCEPT ![t].pc = "idle",
                          ![t].result = IF ok THEN "true" ELSE "false"]
        /\ UNCHANGED <<g_cameraStreams, g_cameraMutex, invokedOnDestroyed>>
        /\ RegFrame

\* a stop that takes every stream for its target
StopTargetsAll(id) == RegIds

\* lines 116-117: the entry of cameraId
StopTargets(id) == {id}

\* lines 114-118: lock, find; a stream that is found is stopped under the
\* lock
StopCameraStream(t, id) ==
    /\ jt[t].pc = "idle"
    /\ g_cameraMutex = 0
    /\ IF \E x \in StopTargets(id) : Found(x)
       THEN /\ g_cameraMutex' = t
            /\ jt' = [jt EXCEPT ![t] = [IdleThread EXCEPT
                        !.pc = "stopPreview", !.op = "stop", !.id = id,
                        !.left = {x \in StopTargets(id) : Found(x)}]]
       ELSE /\ jt' = [jt EXCEPT ![t] = [IdleThread EXCEPT
                        !.op = "stop", !.id = id]]
            /\ UNCHANGED g_cameraMutex
    /\ UNCHANGED <<g_cameraStreams, obj, invokedOnDestroyed>>
    /\ RegFrame

\* lines 123-124: lock
StopAllCameraStreams(t) ==
    /\ jt[t].pc = "idle"
    /\ g_cameraMutex = 0
    /\ g_cameraMutex' = t
    /\ jt' = [jt EXCEPT ![t] = [IdleThread EXCEPT
                 !.pc = "stopPreview", !.op = "stopAll",
                 !.left = {x \in RegIds : Found(x)}]]
    /\ UNCHANGED <<g_cameraStreams, obj, invokedOnDestroyed>>
    /\ RegFrame

\* lines 118 and 125-127: stream->stopPreview() of one stream, which waits
\* for the stream's mutex_ and tears the session down
StopPreviewUnderLock(t) ==
    /\ jt[t].pc = "stopPreview"
    /\ \E id \in jt[t].left :
         LET o == g_cameraStreams[id]
         IN  /\ obj[o].busy = 0
             /\ obj' = [obj EXCEPT ![o].streaming = FALSE, ![o].held = FALSE]
             /\ jt' = [jt EXCEPT ![t].left = @ \ {id}]
    /\ UNCHANGED <<g_cameraStreams, g_cameraMutex, invokedOnDestroyed>>
    /\ RegFrame

\* lines 119 and 128: erase / clear destroy the streams, then unlock
EraseStreams(t) ==
    /\ jt[t].pc = "stopPreview"
    /\ jt[t].left = {}
    /\ LET gone == IF jt[t].op = "stopAll" THEN RegIds
                   ELSE {x \in StopTargets(jt[t].id) : Found(x)}
       IN  /\ obj' = [o \in Objs |->
                        IF \E x \in gone : g_cameraStreams[x] = o
                        THEN [obj[o] EXCEPT !.state = "erased"]
                        ELSE obj[o]]
           /\ g_cameraStreams' =
                [x \in RegIds |-> IF x \in gone THEN 0 ELSE g_cameraStreams[x]]
    /\ g_cameraMutex' = 0
    /\ jt' = [jt EXCEPT ![t].pc = "idle"]
    /\ UNCHANGED invokedOnDestroyed
    /\ RegFrame

\* onCaptureStarted of a streaming stream
RegCaptureStarted(o) ==
    /\ ObjAlive(o)
    /\ obj[o].streaming
    /\ obj[o].frames < MaxRegFrames
    /\ obj' = [obj EXCEPT ![o].frames = @ + 1]
    /\ UNCHANGED <<g_cameraStreams, g_cameraMutex, jt, invokedOnDestroyed>>
    /\ RegFrame

RegNext ==
    \/ \E t \in JniThreads, id \in RegIds : GetOrCreateCameraStream(t, id)
    \/ \E t \in JniThreads : StartPreviewCall(t)
    \/ \E t \in JniThreads : StartPreviewReturn(t)
    \/ \E t \in JniThreads, id \in RegIds : StopCameraStream(t, id)
    \/ \E t \in JniThreads : StopAllCameraStreams(t)
    \/ \E t \in JniThreads : StopPreviewUnderLock(t)
    \/ \E t \in JniThreads : EraseStreams(t)
    \/ \E o \in Objs : RegCaptureStarted(o)

\* ======================================================================
\* Part VII  RingBuffer<T, Capacity> (common/ring_buffer.h 11-90): one
\* producer thread and one consumer thread, every load and store of head_
\* and tail_ that another thread can observe a step of its own.  The values
\* pushed are 1, 2, ... in the order the producer is handed them.
\* ======================================================================
Capacity == 4                \* the template argument, a power of two

MaxPushes == 5               \* values handed to the producer

kMask == Capacity - 1

\* `x & kMask` for a power-of-two Capacity
Mask(x) == x % Capacity

\* an element of buffer_ that was never assigned, or a torn copy
NoValue == 0

RingInit ==
    /\ head_ = 0
    /\ tail_ = 0
    /\ buffer_ = [i \in 0..kMask |-> NoValue]
    /\ ppc = "idle"
    /\ currentHead = 0
    /\ item = NoValue
    /\ loadedTail = 0
    /\ qpc = "idle"
    /\ currentTail = 0
    /\ popItem = NoValue
    /\ pushNo = 0
    /\ accepted = <<>>
    /\ popped = <<>>
    /\ atCall = <<>>
    /\ rlast = "none"

RingFrame == UNCHANGED <<camVars, imuVars, clsVars, lockVars, regVars, ordVars>>

\* a size() that counts the slots
sizeOfArray == Capacity

\* size(): the subtraction wraps in size_t, by a multiple of Capacity
size == Mask(head_ + Capacity - tail_)

\* empty()
empty == head_ = tail_

\* the stored elements, oldest first
Contents == [i \in 1..size |-> buffer_[Mask(tail_ + i - 1)]]

\* a full test that never finds the buffer full
IsFullNever(nextHead) == FALSE

\* lines 25 and 40: nextHead == tail_.load(acquire)
IsFull(nextHead) == nextHead = tail_

\* lines 22-27: push() loads head_ and tail_ and returns false when full
PushCheck ==
    /\ RingFrame
    /\ ppc = "idle"
    /\ pushNo < MaxPushes
    /\ atCall' = Contents
    /\ IF IsFull(Mask(head_ + 1))
       THEN /\ rlast' = "pushFalse"
            /\ UNCHANGED <<ppc, currentHead, item, pushNo>>
       ELSE /\ ppc' = "write"
            /\ currentHead' = head_
            /\ item' = pushNo + 1
            /\ pushNo' = pushNo + 1
            /\ rlast' = "push"
    /\ UNCHANGED <<head_, tail_, buffer_, loadedTail, qpc, currentTail,
                   popItem, accepted, popped>>

\* lines 37-40: pushOverwrite() loads head_ and tail_
OvCheck ==
    /\ RingFrame
    /\ ppc = "idle"
    /\ pushNo < MaxPushes
    /\ atCall' = Contents
    /\ ppc' = IF IsFull(Mask(head_ + 1)) THEN "bump" ELSE "write"
    /\ currentHead' = head_
    /\ item' = pushNo + 1
    /\ pushNo' = pushNo + 1
    /\ rlast' = IF IsFull(Mask(head_ + 1)) THEN "overwriteFull" ELSE "overwrite"
    /\ UNCHANGED <<head_, tail_, buffer_, loadedTail, qpc, currentTail,
                   popItem, accepted, popped>>

\* line 41: tail_.load(relaxed)
OvLoadTail ==
    /\ RingFrame
    /\ ppc = "bump"
    /\ loadedTail' = tail_
    /\ ppc' = "bumpStore"
    /\ rlast' = "loadTail"
    /\ UNCHANGED <<head_, tail_, buffer_, currentHead, item, qpc, currentTail,
                   popItem, pushNo, accepted, popped, atCall>>

\* lines 41-42: tail_.store((loaded + 1) & kMask)
OvStoreTail ==
    /\ RingFrame
    /\ ppc = "bumpStore"
    /\ tail_' = Mask(loadedTail + 1)
    /\ ppc' = "write"
    /\ rlast' = "bumpTail"
    /\ UNCHANGED <<head_, buffer_, currentHead, item, loadedTail, qpc,
                   currentTail, popItem, pushNo, accepted, popped, atCall>>

\* lines 29 and 45: the assignment buffer_[currentHead] = item begins
WriteBegin ==
    /\ RingFrame
    /\ ppc = "write"
    /\ ppc' = "writing"
    /\ rlast' = "writeBegin"
    /\ UNCHANGED <<head_, tail_, buffer_, currentHead, item, loadedTail, qpc,
                   currentTail, popItem, pushNo, accepted, popped, atCall>>

\* and is complete
WriteEnd ==
    /\ RingFrame
    /\ ppc = "writing"
    /\ buffer_' = [buffer_ EXCEPT ![currentHead] = item]
    /\ ppc' = "store"
    /\ rlast' = "writeEnd"
    /\ UNCHANGED <<head_, tail_, currentHead, item, loadedTail, qpc,
                   currentTail, popItem, pushNo, accepted, popped, atCall>>

\* lines 30-31 and 46: head_.store(nextHead), and the call returns
StoreHead ==
    /\ RingFrame
    /\ ppc = "store"
    /\ head_' = Mask(currentHead + 1)
    /\ accepted' = Append(accepted, item)
    /\ ppc' = "idle"
    /\ rlast' = "stored"
    /\ UNCHANGED <<tail_, buffer_, currentHead, item, loadedTail, qpc,
                   currentTail, popItem, pushNo, popped, atCall>>

\* line 52: pop() loads tail_
PopLoadTail ==
    /\ RingFrame
    /\ qpc = "idle"
    /\ currentTail' = tail_
    /\ qpc' = "check"
    /\ rlast' = "pop"
    /\ UNCHANGED <<head_, tail_, buffer_, ppc, currentHead, item, loadedTail,
                   popItem, pushNo, accepted, popped, atCall>>

\* lines 54-56: it loads head_ and returns false when they are equal
PopCheck ==
    /\ RingFrame
    /\ qpc = "check"
    /\ IF currentTail = head_
       THEN /\ qpc' = "idle"
            /\ rlast' = "popFalse"
       ELSE /\ qpc' = "read"
            /\ rlast' = "popCheck"
    /\ UNCHANGED <<head_, tail_, buffer_, ppc, currentHead, item, loadedTail,
                   currentTail, popItem, pushNo, accepted, popped, atCall>>

\* what a copy out of buffer_[i] can yield: the element, or, while the
\* producer is assigning that element (a data race), the old value, the new
\* one or a mixture of the two
ReadCell(i) ==
    IF ppc = "writing" /\ currentHead = i
    THEN {buffer_[i], item, NoValue}
    ELSE {buffer_[i]}

\* line 58: item = buffer_[currentTail]
PopRead ==
    /\ RingFrame
    /\ qpc = "read"
    /\ popItem' \in ReadCell(currentTail)
    /\ qpc' = "store"
    /\ rlast' = "popRead"
    /\ UNCHANGED <<head_, tail_, buffer_, ppc, currentHead, item, loadedTail,
                   currentTail, pushNo, accepted, popped, atCall>>

\* lines 59-60: tail_.store((currentTail + 1) & kMask), return true
PopStore ==
    /\ RingFrame
    /\ qpc = "store"
    /\ tail_' = Mask(currentTail + 1)
    /\ popped' = Append(popped, popItem)
    /\ qpc' = "idle"
    /\ rlast' = "popTrue"
    /\ UNCHANGED <<head_, buffer_, ppc, currentHead, item, loadedTail,
                   currentTail, popItem, pushNo, accepted, atCall>>

\* lines 77-79: clear()
Clear ==
    /\ RingFrame
    /\ qpc = "idle"
    /\ tail_' = head_
    /\ rlast' = "clear"
    /\ UNCHANGED <<head_, buffer_, ppc, currentHead, item, loadedTail, qpc,
                   currentTail, popItem, pushNo, accepted, popped, atCall>>

\* ---- one producer using push(), one consumer using pop()
RingNext ==
    \/ PushCheck
    \/ WriteBegin
    \/ WriteEnd
    \/ StoreHead
    \/ PopLoadTail
    \/ PopCheck
    \/ PopRead
    \/ PopStore

\* ---- one producer using pushOverwrite(), one consumer using pop()
OverwriteNext ==
    \/ OvCheck
    \/ OvLoadTail
    \/ OvStoreTail
    \/ WriteBegin
    \/ WriteEnd
    \/ StoreHead
    \/ PopLoadTail
    \/ PopCheck
    \/ PopRead
    \/ PopStore

\* ---- one thread making every call, each call after the one before
SoloPush == qpc = "idle" /\ PushCheck

SoloOverwrite == qpc = "idle" /\ OvCheck

SoloPop == ppc = "idle" /\ PopLoadTail

SoloClear == ppc = "idle" /\ Clear

SoloNext ==
    \/ SoloPush
    \/ SoloOverwrite
    \/ SoloPop
    \/ SoloClear
    \/ OvLoadTail
    \/ OvStoreTail
    \/ WriteBegin
    \/ WriteEnd
    \/ StoreHead
    \/ PopCheck
    \/ PopRead
    \/ PopStore

\* ======================================================================
\* Part VIII  The locks of the camera domain (camera_manager.h 78-129,
\* 298-411; camera_manager.cpp 268-310, 430-439, 486-528): g_cameraMutex,
\* and mutex_ and statsMutex_ of the stream registered for each id.  JNI
\* threads start, stop and query; one camera-service thread per stream
\* delivers onCaptureStarted.  A thread whose next step takes a lock waits
\* at that step for as long as another thread holds the lock.
\* ======================================================================
LkThreads == {1, 2}

LkIds == {"cam0", "cam1"}

LkOps == {"start", "stop", "stopAll", "statsById", "statsAll"}

\* the holder of statsMutex_ while a camera-service thread has it
ServiceThread == Cardinality(LkThreads) + 1

LockNames == <<"g_cameraMutex", "mutex_", "statsMutex_">>

Rank(lock) == CHOOSE i \in DOMAIN LockNames : LockNames[i] = lock

LkIdle == [pc |-> "idle", op |-> "none", id |-> NoId, left |-> {}]

OrdInit ==
    /\ gHolder = 0
    /\ mHolder = [id \in LkIds |-> 0]
    /\ sHolder = [id \in LkIds |-> 0]
    /\ present = [id \in LkIds |-> FALSE]
    /\ isStreaming = [id \in LkIds |-> FALSE]
    /\ lk = [t \in LkThreads |-> LkIdle]
    /\ ptrStale = [t \in LkThreads |-> FALSE]
    /\ nt = [id \in LkIds |-> "idle"]
    /\ outOfOrder = FALSE

OrdFrame == UNCHANGED <<camVars, imuVars, clsVars, lockVars, regVars, ringVars>>

\* the locks thread t holds
HeldBy(t) ==
    (IF gHolder = t THEN {"g_cameraMutex"} ELSE {})
    \cup (IF \E id \in LkIds : mHolder[id] = t THEN {"mutex_"} ELSE {})
    \cup (IF \E id \in LkIds : sHolder[id] = t THEN {"statsMutex_"} ELSE {})

\* std::lock_guard on `lock` by a thread holding `held`
Acquire(lock, held) ==
    outOfOrder' = (outOfOrder \/ \E h \in held : Rank(h) >= Rank(lock))

\* a stats callback that asks the registry
CallbackLocksRegistry == {"g_cameraMutex"}

\* the locks the registered stats callback takes: none
CallbackLocks == {}

\* a JNI call begins
LkBegin(t, op, id) ==
    /\ lk[t].pc = "idle"
    /\ lk' = [lk EXCEPT ![t] =
                [LkIdle EXCEPT !.op = op,
                               !.id = IF op \in {"stopAll", "statsAll"}
                                      THEN NoId ELSE id,
                               !.pc = IF op = "start" THEN "managerLock"
                                      ELSE "registryLock"]]
    /\ ptrStale' = [ptrStale EXCEPT ![t] = FALSE]
    /\ UNCHANGED <<gHolder, mHolder, sHolder, present, isStreaming, nt,
                   outOfOrder>>
    /\ OrdFrame

\* camera_manager.h 91-97: getCameraManager() locks and unlocks
LkManager(t) ==
    /\ lk[t].pc = "managerLock"
    /\ gHolder = 0
    /\ Acquire("g_cameraMutex", HeldBy(t))
    /\ lk' = [lk EXCEPT ![t].pc = "registryLock"]
    /\ UNCHANGED <<gHolder, mHolder, sHolder, present, isStreaming, ptrStale,
                   nt>>
    /\ OrdFrame

\* camera_manager.h 103-111, 115-116, 124, 354 and 391: the lock of the
\* registry.  getOrCreateCameraStream releases it on return; the stops and
\* the queries keep it for the calls they make on the streams.
LkRegistry(t) ==
    LET op == lk[t].op
        id == lk[t].id
        targets == IF op \in {"stop", "statsById"}
                   THEN {x \in {id} : present[x]}
                   ELSE IF op = "stopAll" THEN {x \in LkIds : present[x]}
                   ELSE {x \in LkIds : present[x] /\ isStreaming[x]}
    IN  /\ lk[t].pc = "registryLock"
        /\ gHolder = 0
        /\ Acquire("g_cameraMutex", HeldBy(t))
        /\ IF op = "start"
           THEN /\ present' = [present EXCEPT ![id] = TRUE]
                /\ lk' = [lk EXCEPT ![t].pc = "streamLock"]
                /\ UNCHANGED gHolder
           ELSE IF op \in {"stop", "statsById"} /\ targets = {}
           THEN /\ lk' = [lk EXCEPT ![t].pc = "idle"]
                /\ UNCHANGED <<gHolder, present>>
           ELSE /\ gHolder' = t
                /\ lk' = [lk EXCEPT ![t].left = targets,
                                    ![t].pc = IF op \in {"stop", "stopAll"}
                                              THEN "stopPreview"
                                              ELSE "getStats"]
                /\ UNCHANGED present
        /\ UNCHANGED <<mHolder, sHolder, isStreaming, ptrStale, nt>>
        /\ OrdFrame

\* camera_manager.h 323 and camera_manager.cpp 271-277: startPreview through
\* the raw pointer locks mutex_ and returns at once when the stream streams.
\* On a destroyed stream the behaviour is undefined (Part VI records that
\* use); here the call is taken to return.
LkStreamLock(t) ==
    LET id == lk[t].id
    IN  /\ lk[t].pc = "streamLock"
        /\ IF ptrStale[t]
           THEN /\ lk' = [lk EXCEPT ![t].pc = "idle"]
                /\ UNCHANGED <<mHolder, outOfOrder>>
           ELSE /\ mHolder[id] = 0
                /\ Acquire("mutex_", HeldBy(t))
                /\ IF isStreaming[id]
                   THEN /\ lk' = [lk EXCEPT ![t].pc = "idle"]
                        /\ UNCHANGED mHolder
                   ELSE /\ lk' = [lk EXCEPT ![t].pc = "resetStats"]
                        /\ mHolder' = [mHolder EXCEPT ![id] = t]
        /\ UNCHANGED <<gHolder, sHolder, present, isStreaming, ptrStale, nt>>
        /\ OrdFrame

\* camera_manager.cpp 304-310: the statistics reset under statsMutex_
LkResetStats(t) ==
    /\ lk[t].pc = "resetStats"
    /\ sHolder[lk[t].id] = 0
    /\ Acquire("statsMutex_", HeldBy(t))
    /\ lk' = [lk EXCEPT ![t].pc = "opening"]
    /\ UNCHANGED <<gHolder, mHolder, sHolder, present, isStreaming, ptrStale,
                   nt>>
    /\ OrdFrame

\* camera_manager.cpp 312-428: the camera-service calls; startPreview
\* returns and mutex_ is released
LkStartReturn(t) ==
    /\ lk[t].pc = "opening"
    /\ \E ok \in BOOLEAN :
         isStreaming' = [isStreaming EXCEPT ![lk[t].id] = ok]
    /\ mHolder' = [mHolder EXCEPT ![lk[t].id] = 0]
    /\ lk' = [lk EXCEPT ![t].pc = "idle"]
    /\ UNCHANGED <<gHolder, sHolder, present, ptrStale, nt, outOfOrder>>
    /\ OrdFrame

\* camera_manager.h 118 and 125-127, camera_manager.cpp 430-439:
\* stream->stopPreview() with g_cameraMutex held
LkStopPreview(t) ==
    /\ lk[t].pc = "stopPreview"
    /\ \E id \in lk[t].left :
         /\ mHolder[id] = 0
         /\ isStreaming' = [isStreaming EXCEPT ![id] = FALSE]
         /\ lk' = [lk EXCEPT ![t].left = @ \ {id}]
    /\ Acquire("mutex_", HeldBy(t))
    /\ UNCHANGED <<gHolder, mHolder, sHolder, present, ptrStale, nt>>
    /\ OrdFrame

\* camera_manager.h 119-120 and 128-129: erase / clear destroy the streams
\* and the lock is released.  A raw pointer to a destroyed stream is stale;
\* a notification still inside a destroyed stream ends with it.
LkErase(t) ==
    LET gone == IF lk[t].op = "stopAll" THEN {x \in LkIds : present[x]}
                ELSE {x \in {lk[t].id} : present[x]}
    IN  /\ lk[t].pc = "stopPreview"
        /\ lk[t].left = {}
        /\ present' = [x \in LkIds |-> present[x] /\ x \notin gone]
        /\ ptrStale' = [u \in LkThreads |->
                          \/ ptrStale[u]
                          \/ lk[u].pc = "streamLock" /\ lk[u].id \in gone]
        /\ nt' = [x \in LkIds |-> IF x \in gone THEN "idle" ELSE nt[x]]
        /\ sHolder' = [x \in LkIds |-> IF x \in gone THEN 0 ELSE sHolder[x]]
        /\ gHolder' = 0
        /\ lk' = [lk EXCEPT ![t].pc = "idle"]
        /\ UNCHANGED <<mHolder, isStreaming, outOfOrder>>
        /\ OrdFrame

\* camera_manager.h 362-364 and 396, camera_manager.cpp 486-496: getStats()
\* of one stream with g_cameraMutex held
LkGetStats(t) ==
    /\ lk[t].pc = "getStats"
    /\ \E id \in lk[t].left :
         /\ sHolder[id] = 0
         /\ lk' = [lk EXCEPT ![t].left = @ \ {id}]
    /\ Acquire("statsMutex_", HeldBy(t))
    /\ UNCHANGED <<gHolder, mHolder, sHolder, present, isStreaming, ptrStale,
                   nt>>
    /\ OrdFrame

\* camera_manager.h 383 and 411: the query returns
LkQueryReturn(t) ==
    /\ lk[t].pc = "getStats"
    /\ lk[t].left = {}
    /\ gHolder' = 0
    /\ lk' = [lk EXCEPT ![t].pc = "idle"]
    /\ UNCHANGED <<mHolder, sHolder, present, isStreaming, ptrStale, nt,
                   outOfOrder>>
    /\ OrdFrame

\* camera_manager.cpp 556-559 and 499-500: onCaptureStarted of a streaming
\* stream arrives at statsMutex_
LkNotifyEnter(id) ==
    /\ present[id]
    /\ isStreaming[id]
    /\ nt[id] = "idle"
    /\ nt' = [nt EXCEPT ![id] = "lock"]
    /\ UNCHANGED <<gHolder, mHolder, sHolder, present, isStreaming, lk,
                   ptrStale, outOfOrder>>
    /\ OrdFrame

\* camera_manager.cpp 502-519: the update under statsMutex_; when the
\* callback is due the thread goes on into it with the lock held
LkNotifyUpdate(id) ==
    /\ nt[id] = "lock"
    /\ sHolder[id] = 0
    /\ Acquire("statsMutex_", {})
    /\ \E due \in BOOLEAN :
         IF due
         THEN /\ sHolder' = [sHolder EXCEPT ![id] = ServiceThread]
              /\ nt' = [nt EXCEPT ![id] = "callback"]
         ELSE /\ nt' = [nt EXCEPT ![id] = "idle"]
              /\ UNCHANGED sHolder
    /\ UNCHANGED <<gHolder, mHolder, present, isStreaming, lk, ptrStale>>
    /\ OrdFrame

\* camera_manager.cpp 525-527: statsCallback_(stats) takes its locks, runs
\* and returns; statsMutex_ is released
LkNotifyReturn(id) ==
    /\ nt[id] = "callback"
    /\ "g_cameraMutex" \in CallbackLocks => gHolder = 0
    /\ "mutex_" \in CallbackLocks => mHolder[id] = 0
    /\ "statsMutex_" \in CallbackLocks => sHolder[id] = 0
    /\ IF CallbackLocks = {}
       THEN UNCHANGED outOfOrder
       ELSE \E lock \in CallbackLocks : Acquire(lock, {"statsMutex_"})
    /\ sHolder' = [sHolder EXCEPT ![id] = 0]
    /\ nt' = [nt EXCEPT ![id] = "idle"]
    /\ UNCHANGED <<gHolder, mHolder, present, isStreaming, lk, ptrStale>>
    /\ OrdFrame

\* the steps of a call that has begun
LkStep(t) ==
    \/ LkManager(t)
    \/ LkRegistry(t)
    \/ LkStreamLock(t)
    \/ LkResetStats(t)
    \/ LkStartReturn(t)
    \/ LkStopPreview(t)
    \/ LkErase(t)
    \/ LkGetStats(t)
    \/ LkQueryReturn(t)

\* the steps of a notification that has arrived
LkNotifyStep(id) ==
    \/ LkNotifyUpdate(id)
    \/ LkNotifyReturn(id)

OrdNext ==
    \/ \E t \in LkThreads, op \in LkOps, id \in LkIds : LkBegin(t, op, id)
    \/ \E t \in LkThreads : LkManager(t)
    \/ \E t \in LkThreads : LkRegistry(t)
    \/ \E t \in LkThreads : LkStreamLock(t)
    \/ \E t \in LkThreads : LkResetStats(t)
    \/ \E t \in LkThreads : LkStartReturn(t)
    \/ \E t \in LkThreads : LkStopPreview(t)
    \/ \E t \in LkThreads : LkErase(t)
    \/ \E t \in LkThreads : LkGetStats(t)
    \/ \E t \in LkThreads : LkQueryReturn(t)
    \/ \E id \in LkIds : LkNotifyEnter(id)
    \/ \E id \in LkIds : LkNotifyUpdate(id)
    \/ \E id \in LkIds : LkNotifyReturn(id)

\* ======================================================== specifications
DataQuiet ==
    DataInit /\ defaultAccel = DefaultAccel /\ defaultGyro = DefaultGyro

ImuQuiet == ImuInit /\ sensorManager /\ DataQuiet

CamQuiet == CamInit /\ managerValid

JniQuiet == ClsQuiet /\ LockInit /\ RegInit /\ RingInit /\ OrdInit

InitCam == CamInit /\ ImuQuiet /\ JniQuiet

InitImu == ImuInit /\ CamQuiet /\ DataQuiet /\ JniQuiet

InitData == ImuInit /\ CamQuiet /\ DataInit /\ JniQuiet

InitCls ==
    ClsInit /\ LockInit /\ RegInit /\ RingInit /\ OrdInit /\ CamQuiet /\ ImuQuiet

InitReg == CamQuiet /\ ImuQuiet /\ JniQuiet

InitStats == CamQuiet /\ ImuQuiet /\ JniQuiet

SpecCam == InitCam /\ [][CamNext]_vars

SpecImu == InitImu /\ [][ImuNext]_vars

SpecImuData == InitData /\ [][DataNext]_vars

SpecImuSwitch == InitImu /\ [][SwitchNext]_vars

SpecClassify == InitCls /\ [][ClsNext]_vars

SpecStats == InitStats /\ [][StatsNext]_vars

SpecRegistry == InitReg /\ [][RegNext]_vars

InitLocks == CamQuiet /\ ImuQuiet /\ JniQuiet

\* every thread that can take a step of its call infinitely often takes it:
\* the scheduler runs every thread, and a mutex that is released again and
\* again is handed to each waiter in the end
SpecLocksFair ==
    /\ InitLocks
    /\ [][OrdNext]_vars
    /\ \A t \in LkThreads : SF_vars(LkStep(t))
    /\ \A id \in LkIds : SF_vars(LkNotifyStep(id))

InitRing == CamQuiet /\ ImuQuiet /\ JniQuiet

SpecRing == InitRing /\ [][RingNext]_vars

InitOverwrite == CamQuiet /\ ImuQuiet /\ JniQuiet

SpecRingOverwrite == InitOverwrite /\ [][OverwriteNext]_vars

InitSolo == CamQuiet /\ ImuQuiet /\ JniQuiet

SpecRingSolo == InitSolo /\ [][SoloNext]_vars

\* Threads that are inside a call, and the workers, keep being scheduled.
ImuFairness ==
    /\ \A t \in Callers : WF_vars(CallerStep(t))
    /\ \A w \in Workers : WF_vars(WorkerStep(w))

SpecImuFair == SpecImu /\ ImuFairness

\* ------------------------------------------------------------------ claims
NothingHeld ==
    /\ handles = NullHandles
    /\ surface = 0
    /\ \A f \in HandleNames : liveObjs[f] = 0
    /\ \A w \in Windows : windowRefs[w] = 0

\* C1: when one of the nine steps of startPreview fails, the call returns
\* false, everything the call acquired (the window reference included) has
\* been released, nothing was released twice, every handle field is null,
\* the camera id is cleared and the stream is not streaming.
C1_FailedStartReleasesAll ==
    (last \in StepNames /\ lastResult = "false") =>
        /\ pc = "idle"
        /\ callLive = {}
        /\ callWindow = 0
        /\ ~doubleFree
        /\ handles = NullHandles
        /\ surface = 0
        /\ currentCameraId = NoId
        /\ ~streaming

\* the last step failed, after all six objects and the window were acquired
C1_Witness ==
    /\ last = "setRepeating"
    /\ lastResult = "false"
    /\ NothingHeld

\* C2: after a device notification reached a streaming stream, the next
\* stopPreview(), or the destructor, releases everything the stream holds.
C2_StopAfterFaultReleasesAll ==
    (notified = "live" /\ last \in {"stopPreview", "destroy"}) => NothingHeld

\* C3: once a device notification was delivered, the stream is not streaming
\* until a startPreview call that began after it succeeds.
C3_NotStreamingAfterNotification ==
    notified # "no" => ~streaming

\* C4: startPreview for the id that is streaming, with another window than
\* the bound one, stops the running session (all of its objects released)
\* and starts afresh on the new window.
C4_DifferentTargetRestarts ==
    [][\A id \in CameraIds, surf \in Windows, cb \in Callbacks :
         (StartPreview(id, surf, cb) /\ streaming /\ currentCameraId = id
            /\ surf # surface)
         => /\ surface' = surf
            /\ pc' = "openCamera"
            /\ \A f \in HandleNames : liveObjs'[f] = 0]_camVars

\* C5: startPreview for the id and window that are streaming returns true at
\* once: nothing acquired, nothing released, no handle and no statistic
\* changed.
C5_SameTargetIsNoop ==
    [][\A id \in CameraIds, cb \in Callbacks :
         (StartPreview(id, surface, cb) /\ streaming /\ currentCameraId = id)
         => /\ lastResult' = "true"
            /\ pc' = "idle"
            /\ UNCHANGED <<streamVars, statVars, nativeVars>>]_camVars

\* a start returned true at once on a stream that had counted a frame
C5_Witness ==
    /\ last = "startPreview"
    /\ lastResult = "true"
    /\ streaming
    /\ frameCount > 0

\* C6: stopPreview() on a stream that is not streaming does nothing: no
\* native call, no state changed.
C6_StopWhenNotStreamingIsNoop ==
    [][(pc = "idle" /\ ~destroyed /\ ~streaming /\ last' = "stopPreview")
         => UNCHANGED <<streamVars, statVars, nativeVars, pc, envVars>>]_camVars

\* stopPreview() was called twice in a row
C6_Witness ==
    /\ last = "stopPreview"
    /\ stopsInRow = 2
    /\ ~streaming

Quiescent == Alive /\ \A t \in Callers : cpc[t] = "idle"

\* C7: between calls, after any sequence of start() and stop() calls,
\* isRunning() is true exactly when the latest call was start() (and so no
\* stop() has completed after it).
C7_RunningIffLastCallWasStart ==
    /\ (Quiescent /\ lastCall = "start") => running
    /\ (Quiescent /\ lastCall \in {"none", "stop"}) => ~running

\* C7 as it holds: the same, for an engine whose sensor manager is available.
C7_RunningIffLastCallWasStartWithManager ==
    /\ (Quiescent /\ lastCall = "start" /\ sensorManager) => running
    /\ (Quiescent /\ lastCall \in {"none", "stop"}) => ~running

\* a stop() has just returned on an engine that had been started and had
\* counted events
C7_Witness ==
    /\ Quiescent
    /\ lastCall = "stop"
    /\ ilast = "stopReturn"
    /\ sensorManager
    /\ ~statsFresh
    /\ ~running

\* C8: whatever threads call start(), stop() and switchSensors(), at most one
\* worker thread is alive at any time and sensorThread_ is never assigned
\* while it is joinable.
C8_OneWorkerNeverReassigned ==
    /\ Cardinality({w \in Workers : ~Exited(w)}) <= 1
    /\ crashed # "terminate"

\* C9: when a stop() returns, the worker has exited, and the callback is not
\* invoked from then until a later start().
C9_StoppedWhenStopReturns ==
    /\ ilast = "stopReturn" => \A w \in Workers : Exited(w)
    /\ ilast = "callback" => ~sinceStop

\* C10: a stop() that found the engine running returns, at the least when no
\* other thread is inside a call of the ImuManager while it runs.
C10_StopReturns ==
    \A t \in Callers :
        (cpc[t] = "stopStore" /\ OthersIdle(t))
            ~> (cpc[t] \in {"idle", "swStart"} \/ ~OthersIdle(t))

\* C11: stop() on an engine that is not running wakes nothing, joins
\* nothing and changes no state of the engine, so a second stop() in a row
\* leaves the engine as the first left it.
C11_StopWhenNotRunningIsNoop ==
    [][\A t \in Callers :
         (Stop(t) /\ ~running)
         => /\ cpc'[t] = "idle"
            /\ UNCHANGED <<memberVars, callerVars, wpc, crashed>>]_vars

\* a stop() has just returned on an engine nobody had started
C11_Witness ==
    /\ ilast = "stopReturn"
    /\ lastCall = "stop"
    /\ sinceStop
    /\ callback = 0
    /\ ~running
    /\ \A w \in Workers : wpc[w] = "none"


\* The window has just been reset: it starts at the clock value read and
\* nothing is counted.
WindowReset ==
    /\ statsWindowStart = inow
    /\ accelCount = 0 /\ gyroCount = 0
    /\ accelLatencyTotal = 0 /\ gyroLatencyTotal = 0

\* C12 as stated: start() on a running engine changes neither the window,
\* the counters, the callback nor the worker, and start() on any stopped
\* engine goes on to the body, whose reset leaves a window that starts at the
\* clock value read, with nothing counted.
C12_StartIsNoopOrResets ==
    [][\A t \in DataCallers, cb \in ImuCallbacks :
         /\ (StartData(t, cb) /\ running)
            => /\ cpc'[t] = "idle"
               /\ UNCHANGED <<memberVars, dataVars, wpc, crashed>>
         /\ (StartData(t, cb) /\ ~running) => cpc'[t] = "startStore"
         /\ StartStatsData(t) => WindowReset']_vars

\* C12, amended: start() on a running engine is a no-op; start() on a
\* stopped engine that has a sensor manager resets the window.
C12_StartIsNoopOrResetsWithManager ==
    [][\A t \in DataCallers, cb \in ImuCallbacks :
         /\ (StartData(t, cb) /\ running)
            => /\ cpc'[t] = "idle"
               /\ UNCHANGED <<memberVars, dataVars, wpc, crashed>>
         /\ (StartData(t, cb) /\ ~running /\ sensorManager)
            => cpc'[t] = "startStore"
         /\ StartStatsData(t) => WindowReset']_vars

\* start() has just returned from an engine it found running, with an event
\* counted in the window
C12_Witness ==
    /\ ilast = "startNoop" /\ running /\ cpc[1] = "idle"
    /\ accelCount + gyroCount > 0 /\ statsWindowStart < inow

\* How often the event numbered k occurs in a sequence of events
Occurrences(events, k) == Cardinality({i \in DOMAIN events : events[i].x = k})

TakenEvents == [i \in DOMAIN taken |-> taken[i][2]]

\* C13: the callback has received exactly the events of the registered
\* channels that drainEvents() took from the queue, each once, as the sample
\* of its channel and in the order the queue yielded them; an event the
\* sensors produced is still queued, was lost with its queue, or was taken
\* and delivered.
C13_DeliveredInQueueOrderOnce ==
    /\ Len(delivered) = Len(taken)
    /\ \A i \in DOMAIN delivered :
         /\ delivered[i][1] = taken[i][1]
         /\ delivered[i][2].x = taken[i][2].x
         /\ delivered[i][2].timestampNs = taken[i][2].timestamp
    /\ \A i, j \in DOMAIN delivered :
         i < j => delivered[i][2].x < delivered[j][2].x
    /\ \A k \in 1..produced :
         Occurrences(queue, k) + Occurrences(TakenEvents, k)
           + (IF k \in discarded THEN 1 ELSE 0) = 1

\* two events of one channel have been delivered
C13_Witness ==
    /\ Len(delivered) = MaxImuEvents
    /\ delivered[1][1] = delivered[2][1]
    /\ delivered[1][2].x = 1 /\ delivered[2][2].x = 2

\* C14: when getStats() returns, the counts and the sums are zero and the
\* window starts at the clock value the call read; a getStats() that follows
\* another with no event counted between returns rate 0 and latency 0 for
\* both channels, measured over a window that began at the clock value the
\* earlier call read.
C14_GetStatsIsConsumingRead ==
    [][\A t \in DataCallers :
         GetStats(t)
         => /\ WindowReset'
            /\ cleanSince # -1
               => /\ StatsValue(inow') = ZeroStats
                  /\ statsWindowStart = cleanSince]_vars

\* the second of two getStats() calls has returned, on a running engine
\* whose first call consumed counted events
C14_Witness ==
    /\ ilast = "getStatsAgain" /\ running
    /\ taken # <<>> /\ queue = <<>>
    /\ cleanSince = inow

\* The min-delay and FIFO values of the sensors that the recorded selectors
\* resolve to
SelectedMetadata ==
    LET accel == Resolve(targetAccelHandle, defaultAccel)
        gyro == Resolve(targetGyroHandle, defaultGyro)
    IN  [accelMinDelayUs |-> IF accel # 0 THEN SensorMinDelay[accel] ELSE 0,
         accelFifoReserved |-> IF accel # 0 THEN SensorFifo[accel] ELSE 0,
         gyroMinDelayUs |-> IF gyro # 0 THEN SensorMinDelay[gyro] ELSE 0,
         gyroFifoReserved |-> IF gyro # 0 THEN SensorFifo[gyro] ELSE 0]

\* C15: a getMetadata() that follows a returned switchSensors(a, g), called
\* on a running engine, reports the min-delay and FIFO values of the sensors
\* that a and g select.
C15_MetadataFollowsSwitch ==
    (/\ ilast = "getMetadata" /\ lastCall = "switch" /\ swRunning
     /\ \A t \in DataCallers : cpc[t] = "idle")
    => /\ MetadataValue.accelMinDelayUs = SelectedMetadata.accelMinDelayUs
       /\ MetadataValue.accelFifoReserved = SelectedMetadata.accelFifoReserved
       /\ MetadataValue.gyroMinDelayUs = SelectedMetadata.gyroMinDelayUs
       /\ MetadataValue.gyroFifoReserved = SelectedMetadata.gyroFifoReserved

\* A worker has resolved both of its sensors.
HasSelected(w) ==
    wpc[w] \in {"registerAccel", "registerGyro", "loop", "poll", "cleanup"}

\* C16: switchSensors on a running engine goes on to stop() and start(cb),
\* and when that start() has spawned, the engine is running with the callback
\* the call found, the selectors of the call are recorded, the previous
\* worker is gone and a new one has just been created; switchSensors on a
\* stopped engine returns with the selectors recorded and the engine, its
\* callback and its threads as they were; and a worker of a start() that
\* followed a switchSensors on a stopped engine has resolved its sensors
\* from the selectors of that call.
C16_SwitchPreservesRunningState ==
    [][/\ \A t \in DataCallers :
            /\ (SwCheck(t) /\ running) => cpc'[t] = "swCopy"
            /\ (StartSpawn(t) /\ via[t] = "switch" /\ Alive')
               => /\ cpc'[t] = "idle"
                  /\ swRunning /\ running' /\ callback' = swCallback
                  /\ <<targetAccelHandle', targetGyroHandle'>> = swArgs
                  /\ \A w \in Workers : wpc[w] = "none"
                  /\ sensorThread' # 0 /\ wpc'[sensorThread'] = "prepare"
            /\ (SwCheck(t) /\ ~running)
               => /\ cpc'[t] = "idle"
                  /\ ~running'
                  /\ <<targetAccelHandle', targetGyroHandle'>> = swArgs
                  /\ UNCHANGED <<callback, sensorThread, wpc, metaVars,
                                 currentAccel, currentGyro>>
       /\ \A w \in Workers :
            (HasSelected(w)' /\ lastCall' = "start" /\ ~swRunning' /\ switchNo' > 0)
            => /\ currentAccel' = Resolve(swArgs'[1], defaultAccel')
               /\ currentGyro' = Resolve(swArgs'[2], defaultGyro')]_vars

\* switchSensors has just returned on an engine it found running: the engine
\* runs with the same callback and a worker that has not taken a step
C16_Witness ==
    /\ lastCall = "switch" /\ swRunning /\ cpc[1] = "idle"
    /\ running /\ callback # 0 /\ callback = swCallback
    /\ <<targetAccelHandle, targetGyroHandle>> = swArgs
    /\ sensorThread # 0 /\ wpc[sensorThread] = "prepare"
    /\ accelMinDelay # 0

\* C17: a worker that has resolved both of its sensors from selectors that
\* switchSensors calls stored, took the two from the same call.
C17_SelectorsResolvedAsPair ==
    (accelFrom >= 1 /\ gyroFrom >= 1) => accelFrom = gyroFrom

\* A selector that names no entry of the sensor list
Unresolved(handle) == handle < 0 \/ handle >= Len(SensorList)

\* C18: a worker that reads a selector that is negative or not less than
\* the number of sensors takes the default sensor of the channel, and
\* whatever the selectors are the worker goes on from the selection through
\* the registration to its loop, without ending and without ending the
\* process.
C18_UnresolvedSelectorFallsBack ==
    [][\A w \in Workers :
         /\ (SelectAccelData(w) /\ Unresolved(targetAccelHandle))
            => currentAccel' = defaultAccel
         /\ (SelectGyroData(w) /\ Unresolved(targetGyroHandle))
            => currentGyro' = defaultGyro
         /\ (wpc[w] = "selectAccel" /\ wpc'[w] # wpc[w])
            => (wpc'[w] = "selectGyro" /\ Alive')
         /\ (wpc[w] = "selectGyro" /\ wpc'[w] # wpc[w])
            => (wpc'[w] = "registerAccel" /\ Alive')
         /\ (wpc[w] = "registerAccel" /\ wpc'[w] # wpc[w])
            => (wpc'[w] = "registerGyro" /\ Alive')
         /\ (wpc[w] = "registerGyro" /\ wpc'[w] # wpc[w])
            => (wpc'[w] = "loop" /\ Alive')]_vars

\* a worker runs its loop on the default sensors, having read an
\* out-of-range accelerometer selector and a negative gyroscope selector
C18_Witness ==
    /\ running /\ \E w \in Workers : wpc[w] = "poll"
    /\ targetAccelHandle >= Len(SensorList) /\ targetGyroHandle < 0
    /\ accelFrom = switchNo /\ gyroFrom = switchNo /\ switchNo > 0
    /\ currentAccel = DefaultAccel /\ currentGyro = DefaultGyro
    /\ gyroMinDelay = SensorMinDelay[DefaultGyro]

\* The sample of the event of a channel that was processed last, the
\* all-zero sample if none was
LastProcessed(channel, sensorType) ==
    LET of == {i \in DOMAIN taken : taken[i][1] = channel}
    IN  IF of = {} THEN ZeroSample
        ELSE LET latest == CHOOSE i \in of : \A j \in of : j <= i
             IN  [x |-> taken[latest][2].x,
                  timestampNs |-> taken[latest][2].timestamp,
                  sensorType |-> sensorType]

\* C19: at any time, what getLatestAccel() / getLatestGyro() returns is the
\* all-zero sample if no event of the channel has been processed, else the
\* sample of the event of that channel processed last, whatever was
\* processed for the other channel.
C19_LatestIsLastProcessed ==
    /\ latestAccel = LastProcessed("accel", "Accelerometer")
    /\ latestGyro = LastProcessed("gyro", "Gyroscope")

\* getLatestGyro() has just returned the sample of the second event, after
\* an accelerometer event was processed first
C19_Witness ==
    /\ ilast = "getLatestGyro"
    /\ Len(taken) = MaxImuEvents
    /\ taken[1][1] = "accel" /\ taken[2][1] = "gyro"
    /\ latestGyro.x = 2 /\ latestAccel.x = 1

\* A worker has registered what sensors it has and runs its loop.
InLoop(w) == wpc[w] \in {"loop", "poll", "drain"}

\* C20: without a sensor manager the engine never runs and has no thread,
\* every start() having returned at once.  On a platform without an
\* accelerometer the accelerometer metadata is 0 and whenever getStats() is
\* called it returns rate 0 and latency 0 for the accelerometer, while a
\* worker in its loop has the gyroscope registered and its metadata stored;
\* and the same with the channels exchanged.
C20_MissingResourcesAreNotFatal ==
    /\ ~sensorManager
       => /\ ~running /\ sensorThread = 0
          /\ \A w \in Workers : wpc[w] = "none"
          /\ \A t \in DataCallers : cpc[t] = "idle"
    /\ defaultAccel = 0
       => /\ accelMinDelay = 0 /\ accelFifo = 0
          /\ \A n \in ImuClockValues :
               /\ StatsValue(n).accelFrequencyHz = ZeroRatio
               /\ StatsValue(n).accelLatencyMs = ZeroRatio
          /\ \A w \in Workers :
               (InLoop(w) /\ defaultGyro # 0)
               => /\ currentGyro = defaultGyro
                  /\ SensorList[currentGyro] \in RegisteredTypes
                  /\ gyroMinDelay = SensorMinDelay[currentGyro]
                  /\ gyroFifo = SensorFifo[currentGyro]
    /\ defaultGyro = 0
       => /\ gyroMinDelay = 0 /\ gyroFifo = 0
          /\ \A n \in ImuClockValues :
               /\ StatsValue(n).gyroFrequencyHz = ZeroRatio
               /\ StatsValue(n).gyroLatencyMs = ZeroRatio
          /\ \A w \in Workers :
               (InLoop(w) /\ defaultAccel # 0)
               => /\ currentAccel = defaultAccel
                  /\ SensorList[currentAccel] \in RegisteredTypes
                  /\ accelMinDelay = SensorMinDelay[currentAccel]
                  /\ accelFifo = SensorFifo[currentAccel]

\* getStats() has just returned on an engine that runs without an
\* accelerometer and has delivered the events of its gyroscope
C20_Witness ==
    /\ ilast \in {"getStats", "getStatsAgain"}
    /\ sensorManager /\ defaultAccel = 0 /\ defaultGyro # 0
    /\ running /\ \E w \in Workers : InLoop(w)
    /\ Len(delivered) = MaxImuEvents /\ latestAccel = ZeroSample

\* ---------------------------------------------------------------- C29
NoKeyword(id) ==
    LET l == toLower(id)
    IN  ~ \E kw \in {kwEye, kwGaze, kwIr, kwDepth, kwTof, kwTrack, kwSlam} :
            Contains(l, kw)

Classified == clusterType # "none"

Rear0  == <<"r", "e", "a", "r", "0">>
Track0 == <<"t", "r", "a", "c", "k", "0">>
EyeIr  == <<"e", "y", "e", "_", "i", "r">>

\* C29: classifyCamera applies its rules in a fixed precedence.  An id that
\* holds an eye, gaze or ir keyword is EyeTracking whatever else it holds;
\* otherwise one that holds depth or tof is Depth; otherwise one that holds
\* track or slam is Avatar; all three regardless of resolution and facing.
\* Without a keyword, width * height of at least 1920 * 1080 is Passthrough.
\* (3840x2160, Back, "rear0") is Passthrough, (640x480, Front, "track0") is
\* Avatar, and every id containing "eye_ir" is EyeTracking.
C29_ClassifyPrecedence ==
    Classified =>
      LET l == toLower(info.id)
          eye   == \E kw \in {kwEye, kwGaze, kwIr} : Contains(l, kw)
          depth == \E kw \in {kwDepth, kwTof} : Contains(l, kw)
          track == \E kw \in {kwTrack, kwSlam} : Contains(l, kw)
      IN  /\ eye => clusterType = "EyeTracking"
          /\ ~eye /\ depth => clusterType = "Depth"
          /\ ~eye /\ ~depth /\ track => clusterType = "Avatar"
          /\ NoKeyword(info.id) /\ info.width * info.height >= 1920 * 1080
                => clusterType = "Passthrough"
          /\ info.id = Rear0 /\ info.width = 3840 /\ info.height = 2160
                /\ info.facing = "Back" => clusterType = "Passthrough"
          /\ info.id = Track0 /\ info.width = 640 /\ info.height = 480
                /\ info.facing = "Front" => clusterType = "Avatar"
          /\ Contains(info.id, EyeIr) => clusterType = "EyeTracking"

\* a high-resolution descriptor whose id holds both a depth and an ir keyword
\* has been classified by the first rule
C29_Witness ==
    /\ info.id = <<"D", "e", "p", "t", "h", "_", "i", "r">>
    /\ info.width = 3840 /\ info.height = 2160
    /\ clusterType = "EyeTracking"

\* ---------------------------------------------------------------- C30
BelowThreshold ==
    NoKeyword(info.id) /\ info.width * info.height < 1920 * 1080

Reverse(s) == [i \in 1..Len(s) |-> s[Len(s) + 1 - i]]

\* a step in which cleanup() ran: every handle field the stream had is null
\* afterwards (stopPreview, failed start, restart, destruction)
CleanupRan ==
    /\ handles # NullHandles \/ surface # 0
    /\ handles' = NullHandles
    /\ last' \in {"startPreview", "stopPreview", "destroy"}
          \/ lastResult' = "false"

\* C26: whenever a CameraStream releases its native resources, the releases
\* happen in strict reverse order of the acquisitions made by startPreview.
C26_ReleasedInReverseOrder ==
    [][CleanupRan => ReleaseSequence = Reverse(AcquiredSequence)]_vars

\* ---------------------------------------------------------------- C25
\* C25: getStats() never blocks on camera callbacks: its caller never stands
\* at the lock of getStats() while a thread of the capture-start
\* notification path (updateStats, the stats-callback invocation) holds
\* that lock.
C25_GetStatsNeverWaitsForNotification ==
    ~(gpc = "lock" /\ statsMutex \in NotifyThreads)

\* ---------------------------------------------------------------- C27
\* thread t goes into statsCallback_(stats) in this step
Invokes(t) == npc[t] = "lock" /\ npc'[t] = "invoke"

\* C27 as stated: the stats callback is invoked only when one is registered,
\* and between two consecutive invocations on one stream at least
\* 1,000,000,000 ns of the boot clock have passed, whatever the number of
\* notifications and threads.
C27_CallbackAtMostOncePerSecond ==
    [][\A t \in NotifyThreads :
         Invokes(t) =>
           /\ statsCallback # 0
           /\ callbackInvokedAt # -1
                => nnow[t] - callbackInvokedAt >= kNsPerSecond]_vars

\* C27 amended: the stats callback is invoked only when one is registered,
\* and between two consecutive invocations with no statistics reset of
\* startPreview between them, the boot-clock values read by their
\* notifications are at least 1,000,000,000 ns apart, whatever the number
\* of notifications and threads.
C27_CallbackAtMostOncePerSecondOfSession ==
    [][\A t \in NotifyThreads :
         Invokes(t) =>
           /\ statsCallback # 0
           /\ sessionInvokedAt # -1
                => nnow[t] - sessionInvokedAt >= kNsPerSecond]_vars

\* a second invocation since the latest start is running, after notifications
\* of both threads
C27_Witness ==
    /\ \E t \in NotifyThreads : npc[t] = "invoke"
    /\ frameCount = 2
    /\ lastCallbackTimeNs > 0
    /\ sessionInvokedAt - lastCallbackTimeNs >= kNsPerSecond

\* ---------------------------------------------------------------- C28
StartStep == last' = "startPreview"

NotificationStep ==
    last' \in {"onCaptureStarted", "updateStats", "statsCallback"}

\* C28: the counters are monotonic and read without reset.  Every step other
\* than a startPreview leaves frameCount and droppedFrames at least as large
\* as they were; getStats() changes no statistic; and every step that is
\* neither a startPreview nor part of a capture-start notification leaves
\* the value getStats() returns as it was, so two getStats() calls with no
\* notification between them return equal values.
C28_CountersMonotonicReadWithoutReset ==
    [][/\ ~StartStep => /\ frameCount' >= frameCount
                        /\ droppedFrames' >= droppedFrames
       /\ last' = "getStats" =>
             UNCHANGED <<frameCount, droppedFrames, prevFrameTimestampNs,
                         lastFrameRateHz, lastLatencyMs, lastCallbackTimeNs>>
       /\ ~StartStep /\ ~NotificationStep
             => CameraStatsValue' = CameraStatsValue]_vars

\* getStats() has returned the statistics of a streaming stream that has
\* counted a frame
C28_Witness ==
    /\ last = "getStats"
    /\ streaming
    /\ frameCount > 0

\* ---------------------------------------------------------------- C21
\* C21: a CameraStream is never accessed after release: whatever stops run
\* concurrently with a start, startPreview is never invoked on a stream
\* object that has been erased from the registry and destroyed.
C21_StartNeverOnDestroyedStream == ~invokedOnDestroyed

\* ---------------------------------------------------------------- C22
\* thread t is inside a blocking camera-service call: the open and session
\* creation of startPreview, or the teardown of a streaming stream in
\* stopPreview
InServiceCall(t) ==
    \/ jt[t].pc = "opening"
    \/ /\ jt[t].pc = "stopPreview"
       /\ \E id \in jt[t].left : obj[g_cameraStreams[id]].streaming

\* C22: g_cameraMutex is held only for insert, lookup and removal in the
\* stream map, never while its holder is inside a blocking camera-service
\* call.
C22_RegistryLockNotHeldAcrossServiceCall ==
    \A t \in JniThreads : g_cameraMutex = t => ~InServiceCall(t)

\* ---------------------------------------------------------------- C23
StreamsOf(id) == {o \in Objs : ObjAlive(o) /\ obj[o].cameraId = id}

HoldsPointer(t) == jt[t].pc \in {"haveStream", "opening"}

\* C23: at every moment at most one live CameraStream exists per camera id,
\* it is the registry's entry for that id, no stream is ever replaced by a
\* second one for the same id, and two start requests for the same id that
\* hold live streams hold the same one.
C23_OneStreamPerId ==
    /\ \A id \in RegIds :
         /\ Cardinality(StreamsOf(id)) <= 1
         /\ \A o \in StreamsOf(id) : g_cameraStreams[id] = o
    /\ \A o \in Objs : obj[o].state # "replaced"
    /\ \A t, u \in JniThreads :
         /\ HoldsPointer(t) /\ HoldsPointer(u) /\ jt[t].id = jt[u].id
         /\ ObjAlive(jt[t].ptr) /\ ObjAlive(jt[u].ptr)
         => jt[t].ptr = jt[u].ptr

\* two start requests for one id are under way on the same live stream, one
\* of them already inside startPreview
C23_Witness ==
    /\ jt[1].pc = "opening"
    /\ jt[2].pc = "haveStream"
    /\ jt[1].id = jt[2].id
    /\ jt[1].ptr = jt[2].ptr
    /\ ObjAlive(jt[1].ptr)

\* ---------------------------------------------------------------- C24
\* thread t takes a step of stopCameraStream
StopStep(t) ==
    /\ jt[t].op = "stop"
    /\ jt[t].pc = "stopPreview"
    /\ jt'[t] # jt[t]

\* thread t returns from startPreview
StartReturns(t) == jt[t].pc = "opening" /\ jt'[t].pc = "idle"

OthersUnchanged(id) ==
    \A b \in RegIds \ {id} :
        /\ g_cameraStreams'[b] = g_cameraStreams[b]
        /\ g_cameraStreams[b] # 0 =>
              obj'[g_cameraStreams[b]] = obj[g_cameraStreams[b]]

\* C24: camera ids are independent.  A start that returns changes the stream
\* of its own id only and returns true exactly when that stream streams
\* afterwards, whatever a start of another id is doing; and every step of
\* stopCameraStream(A) leaves the registry entry, the streaming state, the
\* statistics and the native resources of every other id as they were.
C24_IdsAreIndependent ==
    [][\A t \in JniThreads :
         /\ StartReturns(t) =>
               /\ OthersUnchanged(jt[t].id)
               /\ (jt'[t].result = "true") = obj'[jt[t].ptr].streaming
         /\ StopStep(t) => OthersUnchanged(jt[t].id)]_vars

\* both ids were started and have counted a frame; stopCameraStream("cam0")
\* has returned and has erased its stream, and the stream of "cam1" still
\* streams with its frame counted and its resources held
C24_Witness ==
    /\ jt[1].op = "stop" /\ jt[1].id = "cam0" /\ jt[1].pc = "idle"
    /\ g_cameraStreams["cam0"] = 0
    /\ \E o \in Objs : obj[o].state = "erased" /\ obj[o].cameraId = "cam0"
                         /\ obj[o].frames = 1
    /\ g_cameraStreams["cam1"] # 0
    /\ LET b == obj[g_cameraStreams["cam1"]]
       IN  b.streaming /\ b.held /\ b.frames = 1
    /\ jt[2].op = "start" /\ jt[2].id = "cam1" /\ jt[2].result = "true"

\* ---------------------------------------------------------------------------
\* C31 (SpecImuData).  Each wake of the worker drains the event queue in one
\* pass: drainEvents() returns only with the queue empty, so no event that
\* was pending when it began is still queued, and the worker gets back to
\* ALooper_pollOnce only from the check of running_ that follows the return.
DrainReturns(w) == wpc[w] = "drain" /\ wpc'[w] # "drain"

BlocksAgain(w) == wpc[w] # "poll" /\ wpc'[w] = "poll"

C31_DrainEmptiesQueue ==
    [][\A w \in Workers :
         /\ DrainReturns(w) => queue = <<>> /\ queue' = <<>> /\ wpc'[w] = "loop"
         /\ BlocksAgain(w) => wpc[w] = "loop"]_vars

\* a pass has returned after every event the sensors produced was taken
C31_Witness ==
    /\ \E w \in Workers : wpc[w] = "loop"
    /\ produced = MaxImuEvents
    /\ Len(taken) = MaxImuEvents
    /\ queue = <<>>

\* ---------------------------------------------------------------- C32
\* thread t leaves the locked part of updateStats
UpdateStep(t) == npc[t] = "lock" /\ npc'[t] # "lock"

\* the statistics reset of startPreview
ResetStep == StartStep /\ pc' = "openCamera"

\* C32 (SpecStats): every capture-start notification adds exactly one to
\* frameCount.  startPreview leaves no previous timestamp and the rate 0;
\* only updateStats changes either afterwards; an update that finds no
\* previous timestamp (the first after a start) keeps the rate; a later
\* update stores the reciprocal of the interval to the previous
\* notification's timestamp when its own is strictly greater and keeps the
\* stored rate otherwise; the latency stored is that of the latest frame
\* that has one.  No stored value is an average.
C32_FrameCountAndInstantRate ==
    [][/\ last' = "onCaptureStarted" => frameCount' = frameCount + 1
       /\ ResetStep => /\ prevFrameTimestampNs' = 0
                       /\ lastFrameRateHz' = ZeroRate
       /\ \A t \in NotifyThreads : UpdateStep(t) =>
             /\ frameCount' = frameCount
             /\ prevFrameTimestampNs' = nts[t]
             /\ prevFrameTimestampNs = 0 => lastFrameRateHz' = lastFrameRateHz
             /\ nts[t] <= prevFrameTimestampNs
                   => lastFrameRateHz' = lastFrameRateHz
             /\ prevFrameTimestampNs > 0 /\ nts[t] > prevFrameTimestampNs
                   => lastFrameRateHz' = Rate(nts[t] - prevFrameTimestampNs)
             /\ nnow[t] > nts[t] /\ nts[t] > 0
                   => lastLatencyMs' = (nnow[t] - nts[t]) \div kNsToMs
       /\ (~ResetStep /\ \A t \in NotifyThreads : ~UpdateStep(t))
             => UNCHANGED <<prevFrameTimestampNs, lastFrameRateHz,
                            lastLatencyMs>>]_vars

\* the second notification of a start came with a later timestamp than the
\* first and its rate is stored
C32_Witness ==
    /\ last \in {"updateStats", "statsCallback"}
    /\ frameCount = 2
    /\ prevFrameTimestampNs = 2 * TickNs
    /\ lastFrameRateHz = Rate(TickNs)

\* ---------------------------------------------------------------- C33
IsPrefix(s, t) == Len(s) <= Len(t) /\ \A i \in 1..Len(s) : s[i] = t[i]

\* C33 (SpecRing): with one producer using push() and one consumer using
\* pop(), the values pop() has returned are a prefix of the values push()
\* has accepted, and the accepted values not yet returned are exactly the
\* stored elements, in order: none is lost, duplicated or reordered.
C33_FifoPrefix ==
    /\ IsPrefix(popped, accepted)
    /\ accepted = popped \o Contents

\* every value has gone through the buffer, which wrapped around on the way
C33_Witness ==
    /\ Len(popped) = MaxPushes
    /\ Len(popped) > Capacity
    /\ rlast = "popTrue"

\* ---------------------------------------------------------------- C34
\* C34 (SpecRingSolo): size() is always within 0..Capacity-1 and empty() is
\* true exactly when it is 0; push() returns false exactly when Capacity-1
\* elements are stored and then changes nothing, and otherwise appends its
\* value; pop() returns false exactly when nothing is stored and then
\* changes nothing, and otherwise removes the oldest element and returns it;
\* after clear() the buffer is empty.
C34_Occupancy ==
    /\ [](size \in 0..(Capacity - 1) /\ (empty <=> size = 0))
    /\ [][/\ rlast' \in {"push", "pushFalse"} =>
               /\ rlast' = "pushFalse" <=> size = Capacity - 1
               /\ rlast' = "pushFalse" => UNCHANGED <<head_, tail_, buffer_>>
          /\ rlast' = "stored" /\ Len(atCall) < Capacity - 1 =>
               Contents' = Append(atCall, item)
          /\ rlast' \in {"popCheck", "popFalse"} =>
               /\ rlast' = "popFalse" <=> empty
               /\ rlast' = "popFalse" => UNCHANGED <<head_, tail_, buffer_>>
          /\ rlast' = "popTrue" =>
               /\ popItem = Head(Contents)
               /\ Contents' = Tail(Contents)
          /\ rlast' = "clear" => empty' /\ size' = 0]_vars

\* push() has been refused by a full buffer
C34_Witness ==
    /\ rlast = "pushFalse"
    /\ size = Capacity - 1
    /\ ~empty

\* ---------------------------------------------------------------- C35
NoDuplicates(s) == \A i, j \in 1..Len(s) : i # j => s[i] # s[j]

InPushOrder(s) == \A i, j \in 1..Len(s) : i < j => s[i] < s[j]

\* C35 as stated (SpecRingOverwrite): with one producer using
\* pushOverwrite() and one consumer using pop(), every value pop() returns
\* was pushed, none is returned twice, and they are returned in push order.
C35_OverwritePopsInPushOrder ==
    /\ \A i \in 1..Len(popped) : popped[i] \in 1..pushNo
    /\ NoDuplicates(popped)
    /\ InPushOrder(popped)

\* the part of it that needs no torn copy: the values returned that were
\* pushed come in push order
PushedValuesInOrder ==
    InPushOrder(SelectSeq(popped, LAMBDA v : v # NoValue))

\* pushOverwrite() by the only thread using the buffer: on a full buffer it
\* drops exactly the oldest element and stores the new one
SoloDropsOldest ==
    [][rlast' = "stored" /\ Len(atCall) = Capacity - 1 =>
          Contents' = Append(Tail(atCall), item)]_vars

\* ---------------------------------------------------------------- C36
\* C36 (SpecCam): the stream never holds more than one live object of a kind
\* nor more than one reference to a window, and once stopPreview() or the
\* destructor has run every object acquired has been released, once each.
C36_ResourceBalance ==
    /\ \A f \in HandleNames : liveObjs[f] <= 1
    /\ \A w \in Windows : windowRefs[w] <= 1
    /\ (destroyed \/ last \in {"stopPreview", "destroy"}) =>
          /\ \A f \in HandleNames : liveObjs[f] = 0
          /\ \A w \in Windows : windowRefs[w] = 0
          /\ ~doubleFree

\* ---------------------------------------------------------------- C37
\* every lock was taken by a thread holding only locks that come before it
InLockOrder == ~outOfOrder

\* some call or notification in progress can take its next step
CanProgress ==
    \/ \A t \in LkThreads : lk[t].pc = "idle"
    \/ \E t \in LkThreads : ENABLED LkStep(t)
    \/ \E id \in LkIds : ENABLED LkNotifyStep(id)

C38_CallbackOutsideStatsLock ==
    \A t \in NotifyThreads : npc[t] = "invoke" => statsMutex # t

\* ---------------------------------------------------------------- C39
\* C39 (SpecImuSwitch): whatever selectors switchSensors was given, the
\* sensor the worker holds for the accelerometer channel is an accelerometer
\* and the one it holds for the gyroscope channel is a gyroscope.
C39_ChannelTypesSound ==
    /\ currentAccel # 0 => SensorList[currentAccel] = "accelerometer"
    /\ currentGyro # 0 => SensorList[currentGyro] = "gyroscope"

\* ---------------------------------------------------------------- C40
\* C40 (SpecImu): between calls, whenever isRunning() is true a worker
\* thread exists that has not exited.
C40_RunningHasWorker ==
    (running /\ \A t \in Callers : cpc[t] = "idle")
        => \E w \in Workers : wpc[w] \notin {"none", "done"}
=============================================================================
